---- MODULE Spec2Model ----
(***************************************************************************)
(* Notification pipeline of MyStagram: the notification-id codec, the      *)
(* dismissal ledger (dismiss, bulk dismiss, prune) and the stream query.   *)
(* Strings are sequences of one-character strings, so that formatting and  *)
(* parsing are computed character by character as the Python code does.    *)
(***************************************************************************)
EXTENDS Integers, Sequences, FiniteSets, TLC

(***************************************************************************)
(* Strings                                                                 *)
(***************************************************************************)
Digits == <<"0", "1", "2", "3", "4", "5", "6", "7", "8", "9">>
DigitSet == {Digits[i] : i \in 1..10}
\* "^2" stands for U+00B2: str.isdigit() accepts it, int() does not.
SuperscriptDigitSet == {"^2"}
LowerHexSet == DigitSet \cup {"a", "b", "c", "d", "e", "f"}
UpperHexSet == {"A", "B", "C", "D", "E", "F"}
WhitespaceSet == {" "}

Rep(c, n) == [i \in 1..n |-> c]

RECURSIVE Concat(_)
Concat(parts) ==
    IF parts = <<>> THEN <<>> ELSE Head(parts) \o Concat(Tail(parts))

DigitValue(c) == CHOOSE i \in 0..9 : Digits[i + 1] = c

\* str(n) / CAST(n AS VARCHAR) of a non-negative integer: decimal digits.
RECURSIVE IntToStr(_)
IntToStr(n) ==
    IF n < 10 THEN <<Digits[n + 1]>>
    ELSE IntToStr(n \div 10) \o <<Digits[(n % 10) + 1]>>

\* int(s) of a string of ASCII decimal digits.
RECURSIVE ParseInt(_)
ParseInt(s) ==
    IF s = <<>> THEN 0
    ELSE 10 * ParseInt(SubSeq(s, 1, Len(s) - 1)) + DigitValue(s[Len(s)])

StartsWith(s, prefix) ==
    /\ Len(s) >= Len(prefix)
    /\ SubSeq(s, 1, Len(prefix)) = prefix

RemovePrefix(s, prefix) ==
    IF StartsWith(s, prefix) THEN SubSeq(s, Len(prefix) + 1, Len(s)) ELSE s

RECURSIVE LStrip(_, _)
LStrip(s, cs) ==
    IF s # <<>> /\ Head(s) \in cs THEN LStrip(Tail(s), cs) ELSE s

RECURSIVE RStrip(_, _)
RStrip(s, cs) ==
    IF s # <<>> /\ s[Len(s)] \in cs
    THEN RStrip(SubSeq(s, 1, Len(s) - 1), cs) ELSE s

\* str.strip()
Strip(s) == RStrip(LStrip(s, WhitespaceSet), WhitespaceSet)

\* str.replace(sub, "")
RECURSIVE RemoveSub(_, _)
RemoveSub(s, sub) ==
    IF s = <<>> THEN <<>>
    ELSE IF StartsWith(s, sub)
         THEN RemoveSub(SubSeq(s, Len(sub) + 1, Len(s)), sub)
         ELSE <<Head(s)>> \o RemoveSub(Tail(s), sub)

\* str.split(sep, maxsplit) for a one-character separator.
RECURSIVE SplitAcc(_, _, _, _)
SplitAcc(s, sep, maxsplit, cur) ==
    IF s = <<>> THEN <<cur>>
    ELSE IF maxsplit > 0 /\ Head(s) = sep
         THEN <<cur>> \o SplitAcc(Tail(s), sep, maxsplit - 1, <<>>)
         ELSE SplitAcc(Tail(s), sep, maxsplit, Append(cur, Head(s)))

\* Variant: maxsplit is ignored, every separator splits.
Split_Unbounded(s, sep, maxsplit) == SplitAcc(s, sep, Len(s), <<>>)

Split(s, sep, maxsplit) == SplitAcc(s, sep, maxsplit, <<>>)

ToLowerChar(c) ==
    CASE c = "A" -> "a" [] c = "B" -> "b" [] c = "C" -> "c"
      [] c = "D" -> "d" [] c = "E" -> "e" [] c = "F" -> "f"
      [] OTHER -> c

(***************************************************************************)
(* Notification ID codec (services/notifications/ids.py)                   *)
(***************************************************************************)
CommentPrefix == <<"c", "o", "m", "m", "e", "n", "t", "-">>
LikePrefix == <<"l", "i", "k", "e", "-">>
FollowPrefix == <<"f", "o", "l", "l", "o", "w", "-">>
UrnPrefix == <<"u", "r", "n", ":">>
UuidPrefix == <<"u", "u", "i", "d", ":">>

build_comment_notification_id(post_id, comment_id) ==
    CommentPrefix \o IntToStr(post_id) \o <<"-">> \o IntToStr(comment_id)

build_like_notification_id(post_id, liker_user_id) ==
    LikePrefix \o IntToStr(post_id) \o <<"-">> \o liker_user_id

build_follow_notification_id(follower_user_id) ==
    FollowPrefix \o follower_user_id

\* The SQL expressions: literal || CAST(column AS VARCHAR) || ...
comment_notification_id_expression(post_id, comment_id) ==
    Concat(<<CommentPrefix, IntToStr(post_id), <<"-">>, IntToStr(comment_id)>>)

like_notification_id_expression(post_id, liker_user_id) ==
    Concat(<<LikePrefix, IntToStr(post_id), <<"-">>, liker_user_id>>)

legacy_like_notification_id_expression(post_id) ==
    Concat(<<LikePrefix, IntToStr(post_id)>>)

follow_notification_id_expression(follower_user_id) ==
    Concat(<<FollowPrefix, follower_user_id>>)

\* Outcomes of the Python predicates: "true", "false", or "raise" when the
\* function leaves by an exception (ValueError of int()).
is_positive_integer(raw_value) ==
    IF raw_value = <<>>
       \/ \E i \in 1..Len(raw_value) :
              raw_value[i] \notin DigitSet \cup SuperscriptDigitSet
    THEN "false"
    ELSE IF \E i \in 1..Len(raw_value) : raw_value[i] \in SuperscriptDigitSet
         THEN "raise"
         ELSE IF ParseInt(raw_value) > 0 THEN "true" ELSE "false"

\* uuid.UUID(hex): drop "urn:" and "uuid:", strip braces, drop hyphens; the
\* rest must be 32 hexadecimal digits. <<>> stands for ValueError.
UuidHex(raw_value) ==
    LET a == RemoveSub(RemoveSub(raw_value, UrnPrefix), UuidPrefix)
        b == RStrip(LStrip(a, {"{", "}"}), {"{", "}"})
        h == RemoveSub(b, <<"-">>)
    IN IF Len(h) = 32
          /\ \A i \in 1..32 : h[i] \in LowerHexSet \cup UpperHexSet
       THEN [i \in 1..32 |-> ToLowerChar(h[i])]
       ELSE <<>>

\* str(UUID): 8-4-4-4-12 lower-case hexadecimal.
UuidStr(h) ==
    Concat(<<SubSeq(h, 1, 8), <<"-">>, SubSeq(h, 9, 12), <<"-">>,
             SubSeq(h, 13, 16), <<"-">>, SubSeq(h, 17, 20), <<"-">>,
             SubSeq(h, 21, 32)>>)

is_canonical_uuid(raw_value) ==
    LET h == UuidHex(raw_value)
    IN IF h = <<>> THEN "false"
       ELSE IF UuidStr(h) = raw_value THEN "true" ELSE "false"

\* Python's `a and b` on the three outcomes: b is evaluated only if a is true.
AndThen(a, b) == IF a = "true" THEN b ELSE a

is_supported_notification_id(notification_id) ==
    IF StartsWith(notification_id, CommentPrefix)
    THEN LET parts == Split(notification_id, "-", 2)
         IN IF Len(parts) # 3 THEN "false"
            ELSE AndThen(is_positive_integer(parts[2]),
                         is_positive_integer(parts[3]))
    ELSE IF StartsWith(notification_id, FollowPrefix)
    THEN is_canonical_uuid(RemovePrefix(notification_id, FollowPrefix))
    ELSE IF StartsWith(notification_id, LikePrefix)
    THEN LET payload == RemovePrefix(notification_id, LikePrefix)
             parts == Split(payload, "-", 1)
         IN IF payload = <<>> THEN "false"
            ELSE IF is_positive_integer(parts[1]) # "true"
                 THEN is_positive_integer(parts[1])
                 ELSE IF Len(parts) = 1 THEN "true"
                      ELSE is_canonical_uuid(parts[2])
    ELSE "false"

(***************************************************************************)
(* Bounds of the model                                                     *)
(***************************************************************************)
\* Scaled stand-ins for the service limits (500, 100 and 64 in
\* services/notifications/dismissals.py lines 21-23).
MAX_DISMISSED_NOTIFICATIONS == 1
PRUNE_BATCH_SIZE == 2
MAX_BULK_DISMISS_NOTIFICATIONS == 2
\* Largest clock value and largest ledger row id handed out.
MaxTime == 1
MaxId == 3
\* Calls started in one behaviour.
MaxCalls == 3

MAX_NOTIFICATION_ID_LENGTH == 191

(***************************************************************************)
(* Users, and the strings clients send                                     *)
(***************************************************************************)
Users == {"ua", "ub"}
Procs == {"p1", "p2"}

\* users.id is str(uuid4()): a canonical UUID string.
UserId(u) ==
    Concat(<<Rep("0", 8), <<"-">>, Rep("0", 4), <<"-">>, <<"4">>, Rep("0", 3),
             <<"-">>, <<"8">>, Rep("0", 3), <<"-">>, Rep("0", 11),
             IF u = "ua" THEN <<"a">>
             ELSE IF u = "ub" THEN <<"b">> ELSE <<"c">>>>)

IdComment11 == build_comment_notification_id(1, 1)
IdLegacyLike1 == legacy_like_notification_id_expression(1)
RawPadded == <<" ">> \o IdComment11 \o <<" ">>
RawBlank == <<" ", " ">>
RawUnknown == <<"f", "o", "o">>
RawBadComment == CommentPrefix \o <<"1", "-", "x">>
\* A well-formed comment id of 192 characters.
RawTooLong ==
    CommentPrefix \o <<"1", "-">> \o Rep("1", MAX_NOTIFICATION_ID_LENGTH - 9)

\* What a client may send as one notification id.
RawIds ==
    {IdComment11, IdLegacyLike1, RawPadded, RawBlank, RawUnknown,
     RawBadComment, RawTooLong}

\* Ids as the codec builds them: post and comment ids are positive
\* integers of one and of two digits, user ids are canonical UUID strings.
MaxCodecInt == 12
CodecInts == {1, 9, 10, MaxCodecInt}
UuidLetters ==
    Concat(<<Rep("a", 8), <<"-">>, Rep("f", 4), <<"-">>, <<"4">>,
             Rep("0", 3), <<"-">>, <<"8">>, Rep("9", 3), <<"-">>,
             Rep("e", 12)>>)
CodecUuids == {UserId("ua"), UserId("ub"), UuidLetters}
BuiltIds ==
    {build_comment_notification_id(a, b) : a \in CodecInts, b \in CodecInts}
    \cup {build_like_notification_id(a, w) : a \in CodecInts, w \in CodecUuids}
    \cup {build_follow_notification_id(w) : w \in CodecUuids}
    \cup {legacy_like_notification_id_expression(a) : a \in CodecInts}

\* Strings that are not ids of the codec: wrong prefix, missing or extra
\* segments, zero and non-numeric ids, a digit of str.isdigit() that int()
\* does not read, and UUIDs that uuid.UUID() parses but that are not in
\* canonical form.
UuidUpper == [i \in 1..Len(UuidLetters) |->
                IF UuidLetters[i] = "a" THEN "A" ELSE UuidLetters[i]]
MalformedIds ==
    {<<>>, RawUnknown, RawBadComment,
     <<"C">> \o Tail(IdComment11),
     CommentPrefix, CommentPrefix \o <<"1">>, CommentPrefix \o <<"1", "-">>,
     CommentPrefix \o <<"1", "-", "2", "-", "3">>,
     CommentPrefix \o <<"0", "-", "1">>, CommentPrefix \o <<"1", "-", "0">>,
     CommentPrefix \o <<"-", "1", "-", "1">>,
     CommentPrefix \o <<"^2", "-", "1">>, CommentPrefix \o <<"1", "-", "^2">>,
     CommentPrefix \o <<"x", "-", "^2">>,
     LikePrefix, LikePrefix \o <<"0">>, LikePrefix \o <<"x">>,
     LikePrefix \o <<"^2">>, LikePrefix \o <<"1", "-">>,
     LikePrefix \o <<"1", "-">> \o UuidUpper,
     LikePrefix \o <<"1", "-">> \o UuidLetters \o <<"-", "x">>,
     LikePrefix \o <<"1", "-">> \o RemoveSub(UuidLetters, <<"-">>),
     LikePrefix \o <<"0", "-">> \o UuidLetters,
     LikePrefix \o UuidLetters,
     FollowPrefix, FollowPrefix \o <<"1">>, FollowPrefix \o UuidUpper,
     FollowPrefix \o <<"{">> \o UuidLetters \o <<"}">>,
     FollowPrefix \o UrnPrefix \o UuidPrefix \o UuidLetters,
     FollowPrefix \o RemoveSub(UuidLetters, <<"-">>),
     FollowPrefix \o UuidLetters \o <<"-", "1">>,
     UuidLetters}

\* What the validator may be handed.
CodecInputs == BuiltIds \cup MalformedIds

\* The ids a viewer of the stream sends back to dismiss what it shows.
IdLikeB == build_like_notification_id(1, UserId("ub"))
IdFollowB == build_follow_notification_id(UserId("ub"))
StreamRawIds == {IdComment11, IdLikeB, IdLegacyLike1, IdFollowB}

\* What a client may send as a bulk list: the empty list, lists with a
\* repeated id, with an invalid id after a valid one, and an oversized list.
BulkInputs ==
    {<<>>, <<IdComment11>>, <<IdComment11, IdLegacyLike1>>,
     <<RawPadded, IdComment11>>, <<IdLegacyLike1, RawUnknown>>,
     [i \in 1..(MAX_BULK_DISMISS_NOTIFICATIONS + 1) |-> IdComment11]}


(***************************************************************************)
(* State                                                                   *)
(***************************************************************************)
VARIABLES
    now,             \* the database clock
    nextId,          \* next value of dismissed_notifications.id
    ledger,          \* the dismissed_notifications table: a set of rows
    proc,            \* per caller: the call in progress and its locals
    comments,        \* the comments table (rows on posts)
    likes,           \* the likes table
    followRequests,  \* the follow_requests table
    blocks,          \* the user_blocks table
    calls,           \* number of calls started so far
    ledger0,         \* the ledger as it was initially (never changes)
    run              \* the maintenance script: its locals and its clock

vars ==
    <<now, nextId, ledger, proc, comments, likes, followRequests, blocks,
      calls, ledger0, run>>
sources == <<comments, likes, followRequests, blocks>>
frame == <<sources, ledger0, run>>

\* scripts/prune_dismissed_notifications.py: the script before it is
\* started. after_user_id "" stands for None; handled is the history of the
\* users passed to _prune_user (line 198), in the order of the calls.
RunIdle ==
    [pc |-> "idle", keep_limit |-> 0, user_batch_size |-> 0,
     prune_batch_size |-> 0, max_users_per_run |-> 0,
     max_rows_per_run |-> 0, max_elapsed_seconds |-> 0,
     clock |-> 0, started_at |-> 0, users_scanned |-> 0, users_pruned |-> 0,
     rows_deleted |-> 0, after_user_id |-> "", stop_reason |-> "completed",
     user_batch |-> <<>>, idx |-> 0, remaining_row_budget |-> 0,
     total_deleted |-> 0, handled |-> <<>>]

NoneOpt == [some |-> FALSE, v |-> 0]
Some(x) == [some |-> TRUE, v |-> x]

NoRow == [id |-> 0, user |-> "", nid |-> <<>>, at |-> 0]
NoResult == [kind |-> "none", nid |-> <<>>, at |-> 0, count |-> 0,
             rid |-> 0, path |-> "none"]
NoPrev == [rid |-> 0, at |-> 0]

Idle ==
    [op |-> "none", pc |-> "idle", user |-> "", nid |-> <<>>, txAt |-> 0,
     ids |-> <<>>, missing |-> <<>>, idx |-> 0, bulk |-> FALSE,
     row |-> NoRow, keep |-> 0, batch |-> 0, maxDel |-> NoneOpt, total |-> 0,
     res |-> NoResult, prev |-> NoPrev, log |-> "none", raws |-> <<>>,
     listed |-> <<>>,
     limit |-> 0, followLimit |-> 0, notifications |-> {}, follows |-> {},
     notificationList |-> <<>>, queries |-> 0, failed |-> "none",
     commits |-> 0]

Ready(p) == proc[p].pc \in {"idle", "done"} /\ calls < MaxCalls

Raised(kind) == [NoResult EXCEPT !.kind = kind]
Counted(n) == [NoResult EXCEPT !.kind = "count", !.count = n]
\* DismissNotificationResponse, with the row it was read from and the path
\* that produced it: "existing", "inserted" or "reread".
Response(row, path) ==
    [kind |-> "ok", nid |-> row.nid, at |-> row.at, count |-> 0,
     rid |-> row.id, path |-> path]

(***************************************************************************)
(* The ledger table                                                        *)
(***************************************************************************)
UserRows(rows, u) == {r \in rows : r.user = u}
Matching(rows, u, nid) == {r \in rows : r.user = u /\ r.nid = nid}

\* Variant: ORDER BY dismissed_at DESC, id ASC
Newer_IdAscending(a, b) == a.at > b.at \/ (a.at = b.at /\ a.id < b.id)

\* ORDER BY dismissed_at DESC, id DESC
Newer(a, b) == a.at > b.at \/ (a.at = b.at /\ a.id > b.id)
RankOf(rows, r) == Cardinality({q \in UserRows(rows, r.user) : Newer(q, r)})

\* Variant: the table without its unique constraint.
UniqueConflict_Off(rows, u, nid) == FALSE

\* The unique constraint ux_dismissed_notifications_user_notification:
\* an INSERT of (u, nid) conflicts when such a row is committed.
UniqueConflict(rows, u, nid) == Matching(rows, u, nid) # {}

\* IntegrityError as the drivers raise it for a unique conflict.
UniqueErrors ==
    {[sqlstate |-> "23505", message |-> "duplicate key"],
     [sqlstate |-> "", message |-> "unique constraint"]}

\* Variant: only the SQLSTATE is looked at.
is_unique_violation_SqlstateOnly(error) == error.sqlstate = "23505"

is_unique_violation(error) ==
    \/ error.sqlstate = "23505"
    \/ error.message \in {"duplicate key", "unique constraint"}

\* server_default=func.now(): the transaction's start time or the
\* statement's time, depending on the database.
InsertTimes(p) == {proc[p].txAt, now}

(***************************************************************************)
(* Validation of client input (dismissals.py)                              *)
(***************************************************************************)
\* The checks of dismiss_notification_for_user, lines 178-186: the
\* normalized id, or <<>> when a ValueError is raised.
NormalizeOrReject(raw) ==
    LET normalized == Strip(raw)
    IN IF normalized = <<>> THEN <<>>
       ELSE IF Len(normalized) > MAX_NOTIFICATION_ID_LENGTH THEN <<>>
       ELSE IF is_supported_notification_id(normalized) # "true" THEN <<>>
       ELSE normalized

SeqRange(s) == {s[i] : i \in 1..Len(s)}

\* Variant: an invalid id is skipped instead of rejecting the list.
RECURSIVE NormalizeAll_SkipInvalid(_, _)
NormalizeAll_SkipInvalid(raws, acc) ==
    IF raws = <<>> THEN acc
    ELSE LET normalized == NormalizeOrReject(Head(raws))
         IN IF normalized = <<>> \/ normalized \in SeqRange(acc)
            THEN NormalizeAll_SkipInvalid(Tail(raws), acc)
            ELSE NormalizeAll_SkipInvalid(Tail(raws),
                                          Append(acc, normalized))

\* The loop of dismiss_notifications_for_user, lines 252-267: the list of
\* distinct normalized ids in input order, or <<<<>>>> on a ValueError.
RECURSIVE NormalizeAll(_, _)
NormalizeAll(raws, acc) ==
    IF raws = <<>> THEN acc
    ELSE LET normalized == NormalizeOrReject(Head(raws))
         IN IF normalized = <<>> THEN <<<<>>>>
            ELSE IF normalized \in SeqRange(acc)
                 THEN NormalizeAll(Tail(raws), acc)
                 ELSE NormalizeAll(Tail(raws), Append(acc, normalized))

\* DismissNotificationRequest (min_length=1, max_length=191 on the raw
\* field), then api/v1/notifications.py lines 467-472: the stripped id, or
\* <<>> for a 422.
ApiNormalizeOrReject(raw) ==
    IF Len(raw) < 1 \/ Len(raw) > 191 THEN <<>>
    ELSE Strip(raw)

\* The validation outcome of each input, computed once.
NormalizedOf ==
    [raw \in RawIds \cup StreamRawIds \cup CodecInputs |->
        NormalizeOrReject(raw)]
ApiNormalizedOf == [raw \in RawIds |-> ApiNormalizeOrReject(raw)]
BulkNormalizedOf == [raws \in BulkInputs |-> NormalizeAll(raws, <<>>)]

SelectSeq2(s, keepSet) ==
    LET F[i \in 0..Len(s)] ==
            IF i = 0 THEN <<>>
            ELSE IF s[i] \in keepSet THEN Append(F[i - 1], s[i]) ELSE F[i - 1]
    IN F[Len(s)]

(***************************************************************************)
(* prune: one DELETE of the rows ranked keep_limit .. keep_limit+batch-1   *)
(***************************************************************************)
\* Variant: the DELETE ranks the rows of every user.
StaleBatch_AnyUser(rows, u, keep_limit, batch_size) ==
    LET rank(r) == Cardinality({q \in rows : Newer(q, r)})
    IN {r \in rows :
           /\ rank(r) >= keep_limit
           /\ rank(r) < keep_limit + batch_size}

\* Variant: the rows are ranked oldest first.
StaleBatch_Ascending(rows, u, keep_limit, batch_size) ==
    LET rank(r) == Cardinality({q \in UserRows(rows, u) : Newer(r, q)})
    IN {r \in UserRows(rows, u) :
           /\ rank(r) >= keep_limit
           /\ rank(r) < keep_limit + batch_size}

\* Variant: the subquery skips one row less than the keep limit.
StaleBatch_KeepOneLess(rows, u, keep_limit, batch_size) ==
    {r \in UserRows(rows, u) :
        /\ RankOf(rows, r) + 1 >= keep_limit
        /\ RankOf(rows, r) + 1 < keep_limit + batch_size}

\* Variant: the subquery has no OFFSET.
StaleBatch_NoOffset(rows, u, keep_limit, batch_size) ==
    {r \in UserRows(rows, u) : RankOf(rows, r) < batch_size}

\* _delete_stale_dismissed_notifications_batch: ORDER BY dismissed_at DESC,
\* id DESC, OFFSET keep_limit, LIMIT batch_size.
StaleBatch(rows, u, keep_limit, batch_size) ==
    {r \in UserRows(rows, u) :
        /\ RankOf(rows, r) >= keep_limit
        /\ RankOf(rows, r) < keep_limit + batch_size}

(***************************************************************************)
(* dismiss_notification_for_user                                           *)
(***************************************************************************)
\* The end of one dismiss call. Inside the bulk fallback loop the response
\* is dropped and the loop goes on to the next id.
\* A finished call: its locals are gone, the caller holds the outcome.
Done(pr, outcome) ==
    [Idle EXCEPT !.op = pr.op, !.pc = "done", !.user = pr.user,
                 !.nid = IF pr.op = "bulk" THEN <<>> ELSE pr.nid,
                 !.ids = pr.ids, !.res = outcome, !.prev = pr.prev,
                 !.log = pr.log, !.raws = pr.raws,
                 !.queries = pr.queries, !.failed = pr.failed,
                 !.commits = pr.commits]

Returned(pr, response) ==
    IF pr.bulk
    THEN IF pr.idx >= Len(pr.missing)
         THEN Done(pr, Counted(Len(pr.ids)))
         ELSE [pr EXCEPT !.pc = "bulk_retry", !.idx = pr.idx + 1]
    ELSE Done(pr, response)

Failed(pr, kind) == Done(pr, Raised(kind))

\* Variant: an existing row is answered with the current time.
SelectExisting_ReturnsNow(pr, u, nid) ==
    LET start == [pr EXCEPT !.user = u, !.nid = nid, !.txAt = now]
    IN IF Matching(ledger, u, nid) # {}
       THEN Returned(start,
                     Response([(CHOOSE r \in Matching(ledger, u, nid) : TRUE)
                                 EXCEPT !.at = now],
                              "existing"))
       ELSE [start EXCEPT !.pc = "insert"]

\* Lines 188-207: the existence check, then session.add.
SelectExisting(pr, u, nid) ==
    LET start == [pr EXCEPT !.user = u, !.nid = nid, !.txAt = now]
    IN IF Matching(ledger, u, nid) # {}
       THEN Returned(start,
                     Response(
                         CHOOSE r \in Matching(ledger, u, nid) : TRUE,
                         "existing"))
       ELSE [start EXCEPT !.pc = "insert"]

PrevOf(pr, u, nid) ==
    IF pr.op \in {"dismiss", "api_dismiss"} /\ pr.res.kind = "ok"
       /\ pr.user = u /\ pr.nid = nid
    THEN [rid |-> pr.res.rid, at |-> pr.res.at]
    ELSE NoPrev

DismissCall(p, u, raw) ==
    /\ Ready(p)
    /\ nextId <= MaxId
    /\ LET nid == NormalizedOf[raw]
           fresh == [Idle EXCEPT !.op = "dismiss", !.user = u,
                                 !.prev = PrevOf(proc[p], u, nid)]
       IN proc' = [proc EXCEPT ![p] =
                     IF nid = <<>> THEN Failed(fresh, "ValueError")
                     ELSE SelectExisting(fresh, u, nid)]
    /\ calls' = calls + 1
    /\ UNCHANGED <<now, nextId, ledger, frame>>

\* Lines 208-213: commit of the INSERT.
DismissCommit(p) ==
    /\ proc[p].pc = "insert"
    /\ LET pr == proc[p]
       IN IF UniqueConflict(ledger, pr.user, pr.nid)
          THEN /\ \E error \in UniqueErrors :
                     proc' = [proc EXCEPT ![p] =
                                IF is_unique_violation(error)
                                THEN [pr EXCEPT !.pc = "reread"]
                                ELSE Failed(pr, "IntegrityError")]
               /\ UNCHANGED <<nextId, ledger>>
          ELSE \E t \in InsertTimes(p) :
                 LET row == [id |-> nextId, user |-> pr.user,
                             nid |-> pr.nid, at |-> t]
                 IN /\ ledger' = ledger \cup {row}
                    /\ nextId' = nextId + 1
                    /\ proc' = [proc EXCEPT ![p] =
                                  [pr EXCEPT !.pc = "refresh", !.row = row]]
    /\ UNCHANGED <<now, frame, calls>>

\* Lines 215-229: the re-read after a unique violation.
DismissReread(p) ==
    /\ proc[p].pc = "reread"
    /\ LET pr == proc[p]
           duplicate == Matching(ledger, pr.user, pr.nid)
       IN proc' = [proc EXCEPT ![p] =
                     IF duplicate = {} THEN Failed(pr, "IntegrityError")
                     ELSE Returned(pr, Response(CHOOSE r \in duplicate : TRUE,
                                   "reread"))]
    /\ UNCHANGED <<now, nextId, ledger, frame, calls>>

\* Line 231: session.refresh reloads the inserted row by primary key.
DismissRefresh(p) ==
    /\ proc[p].pc = "refresh"
    /\ LET pr == proc[p]
       IN proc' = [proc EXCEPT ![p] =
                     IF pr.row \in ledger THEN [pr EXCEPT !.pc = "prune"]
                     ELSE Failed(pr, "InvalidRequestError")]
    /\ UNCHANGED <<now, nextId, ledger, frame, calls>>

\* Variant: the DELETE of a prune that fails is not rolled back.
BestEffortPrune_NoRollback(rows, u, fails) ==
    rows \ StaleBatch(rows, u, MAX_DISMISSED_NOTIFICATIONS, PRUNE_BATCH_SIZE)

\* Variant: the post-commit prune keeps no row.
BestEffortPrune_KeepNone(rows, u, fails) ==
    IF fails THEN rows
    ELSE rows \ StaleBatch(rows, u, 0, PRUNE_BATCH_SIZE)

\* Variant: the post-commit prune deletes one row.
BestEffortPrune_SingleRow(rows, u, fails) ==
    IF fails THEN rows
    ELSE rows \ StaleBatch(rows, u, MAX_DISMISSED_NOTIFICATIONS, 1)

\* Lines 104-127: _run_best_effort_prune; a failing DELETE is rolled back
\* and swallowed.
BestEffortPrune(rows, u, fails) ==
    IF fails THEN rows
    ELSE rows \ StaleBatch(rows, u, MAX_DISMISSED_NOTIFICATIONS,
                           PRUNE_BATCH_SIZE)

\* What _run_best_effort_prune logs: a warning for a failure, an info line
\* when rows were pruned, else nothing.
BestEffortPruneLog(rows, u, fails) ==
    IF fails THEN "warning"
    ELSE IF StaleBatch(rows, u, MAX_DISMISSED_NOTIFICATIONS,
                       PRUNE_BATCH_SIZE) # {}
         THEN "info"
         ELSE "none"

\* Lines 232-236: the post-commit prune, then the response.
DismissPrune(p) ==
    /\ proc[p].pc = "prune"
    /\ \E fails \in BOOLEAN :
          /\ ledger' = BestEffortPrune(ledger, proc[p].user, fails)
          /\ proc' = [proc EXCEPT ![p] =
                        Returned([proc[p] EXCEPT !.log =
                                    BestEffortPruneLog(ledger, proc[p].user,
                                                       fails)],
                                 Response(proc[p].row, "inserted"))]
    /\ UNCHANGED <<now, nextId, frame, calls>>

(***************************************************************************)
(* POST /notifications/dismissed (api/v1/notifications.py)                 *)
(***************************************************************************)
\* Lines 453-488.
ApiDismissCall(p, u, raw) ==
    /\ Ready(p)
    /\ nextId <= MaxId
    /\ LET nid == ApiNormalizedOf[raw]
           fresh == [Idle EXCEPT !.op = "api_dismiss", !.user = u,
                                 !.nid = nid, !.txAt = now,
                                 !.prev = PrevOf(proc[p], u, nid)]
       IN proc' = [proc EXCEPT ![p] =
                     IF nid = <<>> THEN Failed(fresh, "HTTP422")
                     ELSE IF Matching(ledger, u, nid) # {}
                          THEN Done(fresh, Response(
                         CHOOSE r \in Matching(ledger, u, nid) : TRUE,
                         "existing"))
                          ELSE [fresh EXCEPT !.pc = "api_insert"]]
    /\ calls' = calls + 1
    /\ UNCHANGED <<now, nextId, ledger, frame>>

\* Lines 490-499.
ApiDismissCommit(p) ==
    /\ proc[p].pc = "api_insert"
    /\ LET pr == proc[p]
       IN IF UniqueConflict(ledger, pr.user, pr.nid)
          THEN /\ \E error \in UniqueErrors :
                     proc' = [proc EXCEPT ![p] =
                                IF is_unique_violation(error)
                                THEN [pr EXCEPT !.pc = "api_reread"]
                                ELSE Failed(pr, "IntegrityError")]
               /\ UNCHANGED <<nextId, ledger>>
          ELSE \E t \in InsertTimes(p) :
                 LET row == [id |-> nextId, user |-> pr.user,
                             nid |-> pr.nid, at |-> t]
                 IN /\ ledger' = ledger \cup {row}
                    /\ nextId' = nextId + 1
                    /\ proc' = [proc EXCEPT ![p] =
                                  [pr EXCEPT !.pc = "api_refresh",
                                             !.row = row]]
    /\ UNCHANGED <<now, frame, calls>>

\* Lines 501-515.
ApiDismissReread(p) ==
    /\ proc[p].pc = "api_reread"
    /\ LET pr == proc[p]
           duplicate == Matching(ledger, pr.user, pr.nid)
       IN proc' = [proc EXCEPT ![p] =
                     IF duplicate = {} THEN Failed(pr, "IntegrityError")
                     ELSE Done(pr, Response(CHOOSE r \in duplicate : TRUE,
                                   "reread"))]
    /\ UNCHANGED <<now, nextId, ledger, frame, calls>>

\* Lines 517-521.
ApiDismissRefresh(p) ==
    /\ proc[p].pc = "api_refresh"
    /\ LET pr == proc[p]
       IN proc' = [proc EXCEPT ![p] =
                     IF pr.row \in ledger
                     THEN Done(pr, Response(pr.row, "inserted"))
                     ELSE Failed(pr, "InvalidRequestError")]
    /\ UNCHANGED <<now, nextId, ledger, frame, calls>>

(***************************************************************************)
(* dismiss_notifications_for_user (bulk)                                   *)
(***************************************************************************)
\* Lines 245-285, and line 311 when nothing is missing.
BulkCall(p, u, raws) ==
    /\ Ready(p)
    /\ nextId <= MaxId
    /\ LET fresh == [Idle EXCEPT !.op = "bulk", !.user = u, !.txAt = now,
                                 !.raws = raws]
           ids == BulkNormalizedOf[raws]
           existing == {r.nid : r \in UserRows(ledger, u)} \cap SeqRange(ids)
           missing == SelectSeq2(ids, SeqRange(ids) \ existing)
       IN proc' = [proc EXCEPT ![p] =
                     IF Len(raws) = 0
                        \/ Len(raws) > MAX_BULK_DISMISS_NOTIFICATIONS
                        \/ ids = <<<<>>>>
                     THEN Failed(fresh, "ValueError")
                     ELSE IF missing = <<>>
                          THEN Done([fresh EXCEPT !.ids = ids],
                                    Counted(Len(ids)))
                          ELSE [fresh EXCEPT !.pc = "bulk_insert",
                                             !.ids = ids,
                                             !.missing = missing]]
    /\ calls' = calls + 1
    /\ UNCHANGED <<now, nextId, ledger, frame>>

\* Lines 286-300: one commit for all the missing ids.
BulkCommit(p) ==
    /\ proc[p].pc = "bulk_insert"
    /\ LET pr == proc[p]
           n == Len(pr.missing)
       IN IF \E i \in 1..n : UniqueConflict(ledger, pr.user, pr.missing[i])
          THEN /\ \E error \in UniqueErrors :
                     proc' = [proc EXCEPT ![p] =
                                IF is_unique_violation(error)
                                THEN [pr EXCEPT !.pc = "bulk_retry",
                                                !.bulk = TRUE, !.idx = 1]
                                ELSE Failed(pr, "IntegrityError")]
               /\ UNCHANGED <<nextId, ledger>>
          ELSE \E t \in InsertTimes(p) :
                 /\ ledger' = ledger \cup
                        {[id |-> nextId + i - 1, user |-> pr.user,
                          nid |-> pr.missing[i], at |-> t] : i \in 1..n}
                 /\ nextId' = nextId + n
                 /\ proc' = [proc EXCEPT ![p] =
                               [pr EXCEPT !.pc = "bulk_prune"]]
    /\ UNCHANGED <<now, frame, calls>>

\* Lines 301-307: the fallback loop enters the single-item path for the
\* next missing id (its validation passed before).
BulkRetry(p) ==
    /\ proc[p].pc = "bulk_retry"
    /\ LET pr == proc[p]
       IN proc' = [proc EXCEPT ![p] =
                     SelectExisting(pr, pr.user, pr.missing[pr.idx])]
    /\ UNCHANGED <<now, nextId, ledger, frame, calls>>

\* Lines 308-311.
BulkPrune(p) ==
    /\ proc[p].pc = "bulk_prune"
    /\ \E fails \in BOOLEAN :
          /\ ledger' = BestEffortPrune(ledger, proc[p].user, fails)
          /\ proc' = [proc EXCEPT ![p] =
                        Done([proc[p] EXCEPT !.log =
                                BestEffortPruneLog(ledger, proc[p].user,
                                                   fails)],
                             Counted(Len(proc[p].ids)))]
    /\ UNCHANGED <<now, nextId, frame, calls>>

(***************************************************************************)
(* prune_dismissed_notifications_for_user                                  *)
(***************************************************************************)
PruneReturn(pr, n) == Done(pr, Counted(n))

\* Lines 139-148.
PruneCall(p, u, keep_limit, batch_size, max_deleted) ==
    /\ Ready(p)
    /\ LET fresh == [Idle EXCEPT !.op = "prune", !.user = u,
                                 !.keep = keep_limit, !.batch = batch_size,
                                 !.maxDel = max_deleted]
       IN proc' = [proc EXCEPT ![p] =
                     IF keep_limit < 0 \/ batch_size <= 0
                        \/ (max_deleted.some /\ max_deleted.v < 0)
                     THEN Failed(fresh, "ValueError")
                     ELSE IF max_deleted.some /\ max_deleted.v = 0
                          THEN PruneReturn(fresh, 0)
                          ELSE [fresh EXCEPT !.pc = "batch"]]
    /\ calls' = calls + 1
    /\ UNCHANGED <<now, nextId, ledger, frame>>

\* Variant: the batch is not shrunk to the remaining budget.
PruneBatch_NoShrink(p) ==
    /\ proc[p].pc = "batch"
    /\ LET pr == proc[p]
           remaining_delete_budget == pr.maxDel.v - pr.total
           stale == StaleBatch(ledger, pr.user, pr.keep, pr.batch)
           deleted_rows == Cardinality(stale)
       IN IF pr.maxDel.some /\ remaining_delete_budget <= 0
          THEN /\ proc' = [proc EXCEPT ![p] = PruneReturn(pr, pr.total)]
               /\ UNCHANGED ledger
          ELSE /\ ledger' = ledger \ stale
               /\ proc' = [proc EXCEPT ![p] =
                             IF deleted_rows <= 0
                             THEN PruneReturn(pr, pr.total)
                             ELSE [pr EXCEPT
                                     !.total = pr.total + deleted_rows,
                                     !.commits = pr.commits + 1]]
    /\ UNCHANGED <<now, nextId, frame, calls>>

\* Lines 149-169: one turn of the loop, with the DELETE of lines 61-101.
PruneBatch(p) ==
    /\ proc[p].pc = "batch"
    /\ LET pr == proc[p]
           remaining_delete_budget == pr.maxDel.v - pr.total
           effective_batch_size ==
               IF pr.maxDel.some /\ remaining_delete_budget < pr.batch
               THEN remaining_delete_budget ELSE pr.batch
           stale == StaleBatch(ledger, pr.user, pr.keep, effective_batch_size)
           deleted_rows == Cardinality(stale)
       IN IF pr.maxDel.some /\ remaining_delete_budget <= 0
          THEN /\ proc' = [proc EXCEPT ![p] = PruneReturn(pr, pr.total)]
               /\ UNCHANGED ledger
          ELSE /\ ledger' = ledger \ stale
               /\ proc' = [proc EXCEPT ![p] =
                             IF deleted_rows <= 0
                             THEN PruneReturn(pr, pr.total)
                             ELSE [pr EXCEPT
                                     !.total = pr.total + deleted_rows,
                                     !.commits = pr.commits + 1]]
    /\ UNCHANGED <<now, nextId, frame, calls>>

(***************************************************************************)
(* Listing the dismissed ids                                               *)
(***************************************************************************)
\* A finished listing: the caller holds the ids in the order returned.
Listed(pr, nids) ==
    [Done(pr, [NoResult EXCEPT !.kind = "ids"])
       EXCEPT !.limit = pr.limit, !.listed = nids]

\* list_dismissed_notification_ids, dismissals.py lines 27-45: ORDER BY
\* dismissed_at DESC, id DESC LIMIT limit.
list_dismissed_notification_ids(rows, u, limit) ==
    LET S == UserRows(rows, u)
        n == IF limit < Cardinality(S) THEN limit ELSE Cardinality(S)
    IN [i \in 1..n |-> (CHOOSE r \in S : RankOf(rows, r) = i - 1).nid]

ListCall(p, u, limit) ==
    /\ Ready(p)
    /\ LET fresh == [Idle EXCEPT !.op = "list", !.user = u, !.limit = limit]
       IN proc' = [proc EXCEPT ![p] =
                     Listed(fresh,
                            list_dismissed_notification_ids(ledger, u, limit))]
    /\ calls' = calls + 1
    /\ UNCHANGED <<now, nextId, ledger, frame>>

\* GET /notifications/dismissed, api/v1/notifications.py lines 381-388:
\* ORDER BY dismissed_at DESC LIMIT limit. Rows with equal dismissed_at come
\* in whatever order the database produces: the set of possible pages.
ApiListOutcomes(rows, u, limit) ==
    LET S == UserRows(rows, u)
        n == IF limit < Cardinality(S) THEN limit ELSE Cardinality(S)
    IN {[i \in 1..n |-> page[i].nid] :
          page \in {sq \in [1..n -> S] :
                      /\ \A i \in 1..n, j \in 1..n :
                            i < j => /\ sq[i] # sq[j]
                                     /\ sq[i].at >= sq[j].at
                      /\ \A r \in S \ {sq[i] : i \in 1..n} :
                            \A i \in 1..n : sq[i].at >= r.at}}

\* Lines 368-390: the limit is validated by Query(ge=1, le=MAX_DISMISSED_
\* NOTIFICATIONS), then the inline query runs.
ApiListCall(p, u, limit) ==
    /\ Ready(p)
    /\ LET fresh == [Idle EXCEPT !.op = "api_list", !.user = u,
                                 !.limit = limit]
       IN IF limit < 1 \/ limit > MAX_DISMISSED_NOTIFICATIONS
          THEN proc' = [proc EXCEPT ![p] = Failed(fresh, "422")]
          ELSE \E nids \in ApiListOutcomes(ledger, u, limit) :
                 proc' = [proc EXCEPT ![p] = Listed(fresh, nids)]
    /\ calls' = calls + 1
    /\ UNCHANGED <<now, nextId, ledger, frame>>

(***************************************************************************)
(* The validator called on its own                                         *)
(***************************************************************************)
\* is_supported_notification_id(raw): the caller holds the outcome, "true",
\* "false" or "raise".
ValidateCall(p, raw) ==
    /\ Ready(p)
    /\ proc' = [proc EXCEPT ![p] =
                  [Idle EXCEPT !.op = "validate", !.pc = "done", !.nid = raw,
                               !.res = Raised(
                                   is_supported_notification_id(raw))]]
    /\ calls' = calls + 1
    /\ UNCHANGED <<now, nextId, ledger, frame>>

\* The database clock advances.
Tick ==
    /\ now < MaxTime
    /\ now' = now + 1
    /\ UNCHANGED <<nextId, ledger, proc, frame, calls>>

(***************************************************************************)
(* Source tables read by the stream                                        *)
(***************************************************************************)
\* posts.author_id: posts 1 and 3 belong to "ua", post 2 to "ub".
PostAuthor(post_id) == IF post_id \in {1, 3} THEN "ua" ELSE "ub"
\* users.username is never empty (the column is constrained).
Username(u) == u

\* Variant: only a block set by the candidate hides the candidate.
NotBlockedEitherDirection_OneWay(viewer_id, candidate_user_id) ==
    <<candidate_user_id, viewer_id>> \notin blocks

\* services/account_blocks.py, build_not_blocked_either_direction_filter
NotBlockedEitherDirection(viewer_id, candidate_user_id) ==
    /\ <<viewer_id, candidate_user_id>> \notin blocks
    /\ <<candidate_user_id, viewer_id>> \notin blocks

\* Byte order of the characters of ids, for ORDER BY on string columns.
Collation ==
    <<"-", "0", "1", "2", "3", "4", "5", "6", "7", "8", "9",
      "a", "b", "c", "d", "e", "f">>
CharRank(c) == CHOOSE i \in 1..Len(Collation) : Collation[i] = c

RECURSIVE StrLess(_, _)
StrLess(a, b) ==
    IF b = <<>> THEN FALSE
    ELSE IF a = <<>> THEN TRUE
    ELSE IF Head(a) = Head(b) THEN StrLess(Tail(a), Tail(b))
    ELSE CharRank(Head(a)) < CharRank(Head(b))

\* Variant: LIMIT is ignored.
TopSets_NoLimit(rows, before, n) == {rows}

\* The first n rows of `rows` under ORDER BY, as a set: `before` holds the
\* pairs the ordering separates, and rows it does not separate may be cut
\* either way by LIMIT.
TopSets(rows, before, n) ==
    LET size == IF Cardinality(rows) < n THEN Cardinality(rows) ELSE n
    IN {T \in SUBSET rows :
           /\ Cardinality(T) = size
           /\ \A x \in T, y \in rows \ T : <<y, x>> \notin before}

(***************************************************************************)
(* The stream queries (services/notifications/stream.py)                   *)
(***************************************************************************)
\* Variant: LIMIT is applied to the comments before the dismissal join.
CommentEventsVisible_LimitFirst(user_id, limit) ==
    LET Before(a, b) == a.at > b.at \/ (a.at = b.at /\ a.id > b.id)
        candidates ==
            {c \in comments :
                /\ PostAuthor(c.post) = user_id
                /\ c.author # user_id
                /\ NotBlockedEitherDirection(user_id, c.author)}
    IN {{c \in T :
            Matching(ledger, user_id,
                     comment_notification_id_expression(c.post, c.id)) = {}}
        : T \in TopSets(candidates,
                        {pair \in candidates \X candidates :
                            Before(pair[1], pair[2])},
                        limit)}

\* _build_comment_events_visible_subquery: the possible row sets.
CommentEventsVisible(user_id, limit) ==
    LET Before(a, b) == a.at > b.at \/ (a.at = b.at /\ a.id > b.id)
        visible ==
            {c \in comments :
                /\ PostAuthor(c.post) = user_id
                /\ c.author # user_id
                /\ NotBlockedEitherDirection(user_id, c.author)
                /\ Matching(ledger, user_id,
                            comment_notification_id_expression(c.post, c.id))
                       = {}}
    IN TopSets(visible,
               {pair \in visible \X visible : Before(pair[1], pair[2])},
               limit)

\* Variant: a dismissed like stays hidden whatever its event time.
LikeRowVisible_NoResurface(user_id, l) ==
    /\ PostAuthor(l.post) = user_id
    /\ l.user # user_id
    /\ NotBlockedEitherDirection(user_id, l.user)
    /\ Matching(ledger, user_id,
                like_notification_id_expression(l.post, UserId(l.user))) = {}
    /\ Matching(ledger, user_id,
                legacy_like_notification_id_expression(l.post)) = {}

\* Variant: the legacy dismissal id is not consulted.
LikeRowVisible_NoLegacy(user_id, l) ==
    /\ PostAuthor(l.post) = user_id
    /\ l.user # user_id
    /\ NotBlockedEitherDirection(user_id, l.user)
    /\ \A r \in Matching(ledger, user_id,
                         like_notification_id_expression(
                             l.post, UserId(l.user))) : r.at < l.at

\* The WHERE clause of _build_like_events_visible_subquery on one like row,
\* with its two outer joins against the ledger.
LikeRowVisible(user_id, l) ==
    /\ PostAuthor(l.post) = user_id
    /\ l.user # user_id
    /\ NotBlockedEitherDirection(user_id, l.user)
    /\ \A r \in Matching(ledger, user_id,
                         like_notification_id_expression(
                             l.post, UserId(l.user))) : r.at < l.at
    /\ \A r \in Matching(ledger, user_id,
                         legacy_like_notification_id_expression(l.post)) :
           r.at < l.at

\* _build_like_events_visible_subquery: ORDER BY updated_at DESC, post_id DESC.
LikeEventsVisible(user_id, limit) ==
    LET Before(a, b) == a.at > b.at \/ (a.at = b.at /\ a.post > b.post)
        visible == {l \in likes : LikeRowVisible(user_id, l)}
    IN TopSets(visible,
               {pair \in visible \X visible : Before(pair[1], pair[2])},
               limit)

\* The rows of the UNION ALL; comment_id 0 and liker "" stand for NULL.
CommentEventRow(c) ==
    [kind |-> "comment", post |-> c.post, comment_id |-> c.id, liker |-> "",
     username |-> Username(c.author), at |-> c.at]
LikeEventRow(l) ==
    [kind |-> "like", post |-> l.post, comment_id |-> 0, liker |-> l.user,
     username |-> Username(l.user), at |-> l.at]

\* ORDER BY occurred_at DESC, post_id DESC, comment_id DESC,
\* liker_user_id DESC. A NULL sorts first or last under DESC depending on
\* the database (nullsFirst).
EventBefore(a, b, nullsFirst) ==
    \/ a.at > b.at
    \/ /\ a.at = b.at
       /\ \/ a.post > b.post
          \/ /\ a.post = b.post
             /\ \/ /\ a.comment_id # 0
                   /\ b.comment_id # 0
                   /\ a.comment_id > b.comment_id
                \/ /\ a.comment_id = 0
                   /\ b.comment_id # 0
                   /\ nullsFirst
                \/ /\ a.comment_id # 0
                   /\ b.comment_id = 0
                   /\ ~nullsFirst
                \/ /\ a.comment_id = 0
                   /\ b.comment_id = 0
                   /\ StrLess(UserId(b.liker), UserId(a.liker))

\* _build_notification_stream_items on one row.
NotificationStreamItem(row) ==
    IF row.kind = "comment"
    THEN [id |-> build_comment_notification_id(row.post, row.comment_id),
          kind |-> "comment", username |-> row.username, at |-> row.at]
    ELSE [id |-> build_like_notification_id(row.post, UserId(row.liker)),
          kind |-> "like", username |-> row.username, at |-> row.at]

\* The rows of T in the order of the outer ORDER BY (lines 252-257), which
\* separates any two rows of the union.
SortEvents(T, nullsFirst) ==
    [i \in 1..Cardinality(T) |->
        CHOOSE e \in T :
            Cardinality({d \in T : EventBefore(d, e, nullsFirst)}) = i - 1]

\* Variant: the outer query sorts oldest first.
OuterOrderLimit_OldestFirst(events, limit, nullsFirst) ==
    LET before == {pair \in events \X events :
                      EventBefore(pair[2], pair[1], nullsFirst)}
    IN {[i \in 1..Cardinality(T) |->
            CHOOSE e \in T :
                Cardinality({d \in T : EventBefore(e, d, nullsFirst)}) = i - 1]
        : T \in TopSets(events, before, limit)}

\* Lines 243-259: ORDER BY ... LIMIT over the union of the two sources; the
\* lists of rows the statement may return.
OuterOrderLimit(events, limit, nullsFirst) ==
    LET before == {pair \in events \X events :
                      EventBefore(pair[1], pair[2], nullsFirst)}
    IN {SortEvents(T, nullsFirst) : T \in TopSets(events, before, limit)}

\* _load_notification_stream_items on a database with the given NULL
\* ordering: every list of items the call may return.
NotificationListsFor(user_id, limit, nullsFirst) ==
    UNION {
      UNION {
        {[i \in 1..Len(rows) |-> NotificationStreamItem(rows[i])] :
            rows \in OuterOrderLimit(
                       {CommentEventRow(c) : c \in cs}
                           \cup {LikeEventRow(l) : l \in ls},
                       limit, nullsFirst)}
        : ls \in LikeEventsVisible(user_id, limit)}
      : cs \in CommentEventsVisible(user_id, limit)}

NotificationLists(user_id, limit) ==
    UNION {NotificationListsFor(user_id, limit, nullsFirst)
           : nullsFirst \in BOOLEAN}

\* _load_notification_stream_items: every list the query may return, as the
\* set of its items.
NotificationOutcomes(user_id, limit) ==
    UNION {
      UNION {
        UNION {
          LET events == {CommentEventRow(c) : c \in cs}
                            \cup {LikeEventRow(l) : l \in ls}
              before == {pair \in events \X events :
                            EventBefore(pair[1], pair[2], nullsFirst)}
          IN {{NotificationStreamItem(row) : row \in T} :
                T \in TopSets(events, before, limit)}
          : nullsFirst \in BOOLEAN}
        : ls \in LikeEventsVisible(user_id, limit)}
      : cs \in CommentEventsVisible(user_id, limit)}

\* Variant: the dismissal of a follow request is not consulted.
FollowRowVisible_NoDismissal(user_id, f) ==
    /\ f.target = user_id
    /\ NotBlockedEitherDirection(user_id, f.requester)

\* The WHERE clauses of _load_follow_stream_items on one request row.
FollowRowVisible(user_id, f) ==
    /\ f.target = user_id
    /\ NotBlockedEitherDirection(user_id, f.requester)
    /\ \A r \in Matching(ledger, user_id,
                         follow_notification_id_expression(
                             UserId(f.requester))) : r.at < f.at

\* _load_follow_stream_items: ORDER BY created_at DESC, requester_id DESC,
\* LIMIT, then the rows without a username are skipped.
FollowOutcomes(user_id, limit) ==
    LET Before(a, b) ==
            \/ a.at > b.at
            \/ /\ a.at = b.at
               /\ StrLess(UserId(b.requester), UserId(a.requester))
        visible == {f \in followRequests : FollowRowVisible(user_id, f)}
    IN {{[id |-> build_follow_notification_id(UserId(f.requester)),
          username |-> Username(f.requester), at |-> f.at] :
            f \in {g \in T : Username(g.requester) # ""}}
        : T \in TopSets(visible,
                        {pair \in visible \X visible :
                            Before(pair[1], pair[2])},
                        limit)}

\* Variant: the comment/like query is repeated once per dismissal row.
EventQueryCount_PerDismissal(user_id, limit) ==
    1 + Cardinality(UserRows(ledger, user_id))

\* Statements _fetch_notification_event_rows sends: the one session.execute
\* of line 243, whose subqueries carry the dismissal joins.
EventQueryCount(user_id, limit) == 1

\* load_notification_stream, lines 413-417: the comment/like query, one
\* session.execute. When the statement fails the exception leaves the
\* function.
StreamCall(p, u, limit, follow_limit) ==
    /\ Ready(p)
    /\ LET fresh == [Idle EXCEPT !.op = "stream", !.user = u,
                                 !.limit = limit,
                                 !.followLimit = follow_limit,
                                 !.queries = EventQueryCount(u, limit)]
       IN \/ \E list \in NotificationLists(u, limit) :
                proc' = [proc EXCEPT ![p] =
                           [fresh EXCEPT !.pc = "follow",
                                         !.notifications = SeqRange(list),
                                         !.notificationList = list]]
          \/ proc' = [proc EXCEPT ![p] =
                        Failed([fresh EXCEPT !.failed = "events"],
                               "DBAPIError")]
    /\ calls' = calls + 1
    /\ UNCHANGED <<now, nextId, ledger, frame>>

\* Variant: a failing follow-request query is answered with the
\* notifications alone.
StreamFollow_PartialOnFailure(p) ==
    /\ proc[p].pc = "follow"
    /\ LET pr == [proc[p] EXCEPT !.queries = @ + 1]
       IN \/ \E outcome \in FollowOutcomes(pr.user, pr.followLimit) :
                proc' = [proc EXCEPT ![p] =
                           [pr EXCEPT !.pc = "done", !.follows = outcome,
                                      !.res = Counted(
                                          Len(pr.notificationList)
                                              + Cardinality(outcome))]]
          \/ proc' = [proc EXCEPT ![p] =
                        [pr EXCEPT !.pc = "done", !.failed = "follows",
                                   !.res = Counted(Len(pr.notificationList))]]
    /\ UNCHANGED <<now, nextId, ledger, frame, calls>>

\* load_notification_stream, lines 418-427: the follow-request query, one
\* session.execute, and the response.
StreamFollow(p) ==
    /\ proc[p].pc = "follow"
    /\ LET pr == [proc[p] EXCEPT !.queries = @ + 1]
       IN \/ \E outcome \in FollowOutcomes(pr.user, pr.followLimit) :
                proc' = [proc EXCEPT ![p] =
                           [pr EXCEPT !.pc = "done", !.follows = outcome,
                                      !.res = Counted(
                                          Len(pr.notificationList)
                                              + Cardinality(outcome))]]
          \/ proc' = [proc EXCEPT ![p] =
                        Failed([pr EXCEPT !.failed = "follows"],
                               "DBAPIError")]
    /\ UNCHANGED <<now, nextId, ledger, frame, calls>>

(***************************************************************************)
(* Writers of the source tables (api/v1/posts.py, api/v1/users.py)         *)
(***************************************************************************)
\* Rows created in the source tables in one behaviour.
MaxComments == 1

\* require_post_interaction_access (services/post_policy.py): the caller is
\* the post's author or follows the author. The actors follow the authors
\* until a block removes the follow edge.
PostInteractionAccess(viewer_id, post_id) ==
    \/ PostAuthor(post_id) = viewer_id
    \/ NotBlockedEitherDirection(viewer_id, PostAuthor(post_id))

\* create_comment: comments.id is a serial, created_at defaults to now().
CreateComment(author, post_id) ==
    /\ Cardinality(comments) < MaxComments
    /\ PostInteractionAccess(author, post_id)
    /\ comments' = comments \cup
           {[id |-> Cardinality(comments) + 1, post |-> post_id,
             author |-> author, at |-> now]}
    /\ UNCHANGED <<now, nextId, ledger, proc, likes, followRequests, blocks,
                   ledger0, run, calls>>

\* like_post: a new row unless the pair already has one.
LikePost(user, post_id) ==
    /\ PostInteractionAccess(user, post_id)
    /\ ~\E l \in likes : l.user = user /\ l.post = post_id
    /\ likes' = likes \cup {[user |-> user, post |-> post_id, at |-> now]}
    /\ UNCHANGED <<now, nextId, ledger, proc, comments, followRequests,
                   blocks, ledger0, run, calls>>

\* unlike_post
UnlikePost(user, post_id) ==
    /\ PostInteractionAccess(user, post_id)
    /\ \E l \in likes : l.user = user /\ l.post = post_id
    /\ likes' = {l \in likes : ~(l.user = user /\ l.post = post_id)}
    /\ UNCHANGED <<now, nextId, ledger, proc, comments, followRequests,
                   blocks, ledger0, run, calls>>

\* follow_user on a private account that has not blocked the caller and
\* that the caller has not blocked: a pending request.
RequestFollow(requester, target) ==
    /\ requester # target
    /\ NotBlockedEitherDirection(requester, target)
    /\ ~\E f \in followRequests : f.requester = requester /\ f.target = target
    /\ followRequests' = followRequests \cup
           {[requester |-> requester, target |-> target, at |-> now]}
    /\ UNCHANGED <<now, nextId, ledger, proc, comments, likes, blocks,
                   ledger0, run, calls>>

\* unfollow_user: the pending request is withdrawn.
WithdrawFollow(requester, target) ==
    /\ NotBlockedEitherDirection(requester, target)
    /\ \E f \in followRequests : f.requester = requester /\ f.target = target
    /\ followRequests' =
           {f \in followRequests :
               ~(f.requester = requester /\ f.target = target)}
    /\ UNCHANGED <<now, nextId, ledger, proc, comments, likes, blocks,
                   ledger0, run, calls>>

\* apply_user_block (services/account_blocks.py): the block row, and the
\* follow requests between the two users are removed in both directions.
BlockUser(blocker_id, blocked_id) ==
    /\ blocker_id # blocked_id
    /\ <<blocker_id, blocked_id>> \notin blocks
    /\ blocks' = blocks \cup {<<blocker_id, blocked_id>>}
    /\ followRequests' =
           {f \in followRequests :
               {f.requester, f.target} # {blocker_id, blocked_id}}
    /\ UNCHANGED <<now, nextId, ledger, proc, comments, likes, ledger0, run,
                   calls>>

(***************************************************************************)
(* The maintenance script (scripts/prune_dismissed_notifications.py)       *)
(***************************************************************************)
RunUsers == {"ua", "ub", "uc"}

\* user_id > after_user_id and ORDER BY user_id compare the ids as strings:
\* the comparison of every two users, worked out once.
UserIdLess ==
    [u \in RunUsers, v \in RunUsers |-> StrLess(UserId(u), UserId(v))]

\* ORDER BY user_id: the users of a set in ascending order of their ids.
RECURSIVE SortUsers(_)
SortUsers(S) ==
    IF S = {} THEN <<>>
    ELSE LET first == CHOOSE u \in S :
                         \A v \in S \ {u} : UserIdLess[u, v]
         IN <<first>> \o SortUsers(S \ {first})

\* Variant: HAVING count > keep_limit + 1.
load_users_exceeding_cap_OffByOne(rows, keep_limit, user_batch_size, after_user_id) ==
    LET over == {u \in RunUsers :
                    /\ Cardinality(UserRows(rows, u)) > keep_limit + 1
                    /\ \/ after_user_id = ""
                       \/ UserIdLess[after_user_id, u]}
        sorted == SortUsers(over)
        size == IF Len(sorted) < user_batch_size
                THEN Len(sorted) ELSE user_batch_size
    IN [i \in 1..size |->
          <<sorted[i], Cardinality(UserRows(rows, sorted[i]))>>]

\* Variant: the WHERE user_id > after_user_id is left out.
load_users_exceeding_cap_NoCursor(rows, keep_limit, user_batch_size, after_user_id) ==
    LET over == {u \in RunUsers :
                    Cardinality(UserRows(rows, u)) > keep_limit}
        sorted == SortUsers(over)
        size == IF Len(sorted) < user_batch_size
                THEN Len(sorted) ELSE user_batch_size
    IN [i \in 1..size |->
          <<sorted[i], Cardinality(UserRows(rows, sorted[i]))>>]

\* _load_users_exceeding_cap: GROUP BY user_id HAVING count > keep_limit,
\* WHERE user_id > after_user_id, ORDER BY user_id LIMIT user_batch_size.
load_users_exceeding_cap(rows, keep_limit, user_batch_size, after_user_id) ==
    LET over == {u \in RunUsers :
                    /\ Cardinality(UserRows(rows, u)) > keep_limit
                    /\ \/ after_user_id = ""
                       \/ UserIdLess[after_user_id, u]}
        sorted == SortUsers(over)
        size == IF Len(sorted) < user_batch_size
                THEN Len(sorted) ELSE user_batch_size
    IN [i \in 1..size |->
          <<sorted[i], Cardinality(UserRows(rows, sorted[i]))>>]

\* A break out of `while True`, then lines 219-224.
RunStop(r, reason) == [r EXCEPT !.pc = "done", !.stop_reason = reason]

\* run, lines 125-161: the settings read from the environment (each one
\* already parsed and in range) and the counters.
RunStart(keep_limit, user_batch_size, prune_batch_size, max_users_per_run, max_rows_per_run, max_elapsed_seconds) ==
    /\ run.pc = "idle"
    /\ run' = [RunIdle EXCEPT
                 !.pc = "loop",
                 !.keep_limit = keep_limit,
                 !.user_batch_size = user_batch_size,
                 !.prune_batch_size = prune_batch_size,
                 !.max_users_per_run = max_users_per_run,
                 !.max_rows_per_run = max_rows_per_run,
                 !.max_elapsed_seconds = max_elapsed_seconds,
                 !.clock = run.clock,
                 !.started_at = run.clock]
    /\ UNCHANGED <<now, nextId, ledger, proc, sources, ledger0, calls>>

\* run, lines 163-182: the checks at the head of `while True` and the query
\* for the next page of users.
RunLoadUsers ==
    /\ run.pc = "loop"
    /\ LET user_batch ==
               load_users_exceeding_cap(ledger, run.keep_limit,
                                        run.user_batch_size,
                                        run.after_user_id)
       IN run' =
            IF run.users_scanned >= run.max_users_per_run
            THEN RunStop(run, "max_users")
            ELSE IF run.rows_deleted >= run.max_rows_per_run
            THEN RunStop(run, "max_rows")
            ELSE IF run.clock - run.started_at >= run.max_elapsed_seconds
            THEN RunStop(run, "max_elapsed_seconds")
            ELSE IF user_batch = <<>>
            THEN RunStop(run, "completed")
            ELSE [run EXCEPT !.pc = "for", !.user_batch = user_batch,
                             !.idx = 1]
    /\ UNCHANGED <<now, nextId, ledger, proc, sources, ledger0, calls>>

\* run, lines 184-197 and 215-217: the head of the for loop; a break there
\* leaves `while True` too, and the end of the page moves after_user_id.
RunForHead ==
    /\ run.pc = "for"
    /\ LET remaining_row_budget == run.max_rows_per_run - run.rows_deleted
       IN run' =
            IF run.idx > Len(run.user_batch)
            THEN [run EXCEPT
                    !.pc = "loop",
                    !.after_user_id = run.user_batch[Len(run.user_batch)][1]]
            ELSE IF run.users_scanned >= run.max_users_per_run
            THEN RunStop(run, "max_users")
            ELSE IF remaining_row_budget <= 0
            THEN RunStop(run, "max_rows")
            ELSE IF run.clock - run.started_at >= run.max_elapsed_seconds
            THEN RunStop(run, "max_elapsed_seconds")
            ELSE [run EXCEPT
                    !.pc = "prune",
                    !.users_scanned = run.users_scanned + 1,
                    !.remaining_row_budget = remaining_row_budget,
                    !.total_deleted = 0,
                    !.handled = Append(run.handled,
                                       run.user_batch[run.idx][1])]
    /\ UNCHANGED <<now, nextId, ledger, proc, sources, ledger0, calls>>

\* run, lines 204-213, with deleted_rows the value _prune_user returned.
RunAfterPrune(r, deleted_rows) ==
    LET counted ==
            IF deleted_rows > 0
            THEN [r EXCEPT !.users_pruned = r.users_pruned + 1,
                           !.rows_deleted = r.rows_deleted + deleted_rows]
            ELSE r
    IN IF counted.rows_deleted >= counted.max_rows_per_run
       THEN RunStop(counted, "max_rows")
       ELSE [counted EXCEPT !.pc = "for", !.idx = r.idx + 1]

\* Variant: _prune_user is called without max_deleted.
RunPruneBatch_NoBudget(fails) ==
    /\ run.pc = "prune"
    /\ LET user_id == run.user_batch[run.idx][1]
           stale == StaleBatch(ledger, user_id, run.keep_limit,
                               run.prune_batch_size)
           deleted_rows == Cardinality(stale)
       IN IF fails
          THEN /\ run' = [run EXCEPT !.pc = "crashed"]
               /\ UNCHANGED ledger
          ELSE /\ ledger' = ledger \ stale
               /\ run' = IF deleted_rows <= 0
                         THEN RunAfterPrune(run, run.total_deleted)
                         ELSE [run EXCEPT !.total_deleted =
                                              run.total_deleted + deleted_rows]
    /\ UNCHANGED <<now, nextId, proc, sources, ledger0, calls>>

\* run, lines 198-203: _prune_user, one turn of the loop of
\* prune_dismissed_notifications_for_user (dismissals.py 149-169) with
\* max_deleted = remaining_row_budget. Nothing in run() catches an exception
\* of the DELETE (fails): it leaves run() and ends the script.
RunPruneBatch(fails) ==
    /\ run.pc = "prune"
    /\ LET user_id == run.user_batch[run.idx][1]
           remaining_delete_budget ==
               run.remaining_row_budget - run.total_deleted
           effective_batch_size ==
               IF remaining_delete_budget < run.prune_batch_size
               THEN remaining_delete_budget ELSE run.prune_batch_size
           stale == StaleBatch(ledger, user_id, run.keep_limit,
                               effective_batch_size)
           deleted_rows == Cardinality(stale)
       IN IF remaining_delete_budget <= 0
          THEN /\ run' = RunAfterPrune(run, run.total_deleted)
               /\ UNCHANGED ledger
          ELSE IF fails
          THEN /\ run' = [run EXCEPT !.pc = "crashed"]
               /\ UNCHANGED ledger
          ELSE /\ ledger' = ledger \ stale
               /\ run' = IF deleted_rows <= 0
                         THEN RunAfterPrune(run, run.total_deleted)
                         ELSE [run EXCEPT !.total_deleted =
                                              run.total_deleted + deleted_rows]
    /\ UNCHANGED <<now, nextId, proc, sources, ledger0, calls>>

\* Seconds of perf_counter a run is followed for.
MaxElapsed == 2

\* perf_counter advances while the script runs.
RunTick ==
    /\ run.pc \in {"loop", "for", "prune"}
    /\ run.clock < MaxElapsed
    /\ run' = [run EXCEPT !.clock = run.clock + 1]
    /\ UNCHANGED <<now, nextId, ledger, proc, sources, ledger0, calls>>

(***************************************************************************)
(* Spec: the ledger under concurrent callers                               *)
(***************************************************************************)
PruneKeepLimits == {0, MAX_DISMISSED_NOTIFICATIONS}
PruneBatchSizes == {1}
PruneBudgets == {NoneOpt, Some(1)}

Init ==
    /\ now = 0
    /\ nextId = 1
    /\ ledger = {}
    /\ proc = [p \in Procs |-> Idle]
    /\ comments = {}
    /\ likes = {}
    /\ followRequests = {}
    /\ blocks = {}
    /\ calls = 0
    /\ ledger0 = {}
    /\ run = RunIdle

Next ==
    \/ \E p \in Procs, u \in Users, raw \in RawIds : DismissCall(p, u, raw)
    \/ \E p \in Procs : DismissCommit(p)
    \/ \E p \in Procs : DismissReread(p)
    \/ \E p \in Procs : DismissRefresh(p)
    \/ \E p \in Procs : DismissPrune(p)
    \/ \E p \in Procs, u \in Users, raws \in BulkInputs : BulkCall(p, u, raws)
    \/ \E p \in Procs : BulkCommit(p)
    \/ \E p \in Procs : BulkRetry(p)
    \/ \E p \in Procs : BulkPrune(p)
    \/ \E p \in Procs, u \in Users, k \in PruneKeepLimits,
          b \in PruneBatchSizes, m \in PruneBudgets : PruneCall(p, u, k, b, m)
    \/ \E p \in Procs : PruneBatch(p)
    \/ Tick

Spec == Init /\ [][Next]_vars

(***************************************************************************)
(* SpecRace: two callers, one dismiss call each                            *)
(***************************************************************************)
PriorRow == [id |-> 1, user |-> "ua", nid |-> IdLegacyLike1, at |-> 0]

RaceInit ==
    /\ now = 0
    /\ \E prior \in BOOLEAN :
          /\ ledger = IF prior THEN {PriorRow} ELSE {}
          /\ nextId = IF prior THEN 2 ELSE 1
    /\ proc = [p \in Procs |-> Idle]
    /\ comments = {}
    /\ likes = {}
    /\ followRequests = {}
    /\ blocks = {}
    /\ calls = 0
    /\ ledger0 = ledger
    /\ run = RunIdle

RaceCall(p, u, raw) ==
    /\ proc[p].pc = "idle"
    /\ DismissCall(p, u, raw)

RaceNext ==
    \/ \E p \in Procs, u \in Users, raw \in RawIds : RaceCall(p, u, raw)
    \/ \E p \in Procs : DismissCommit(p)
    \/ \E p \in Procs : DismissReread(p)
    \/ \E p \in Procs : DismissRefresh(p)
    \/ \E p \in Procs : DismissPrune(p)
    \/ Tick

SpecRace == RaceInit /\ [][RaceNext]_vars

(***************************************************************************)
(* SpecApi: the HTTP endpoint beside the service functions                 *)
(***************************************************************************)
ApiNext ==
    \/ \E p \in Procs, u \in Users, raw \in RawIds : ApiDismissCall(p, u, raw)
    \/ \E p \in Procs : ApiDismissCommit(p)
    \/ \E p \in Procs : ApiDismissReread(p)
    \/ \E p \in Procs : ApiDismissRefresh(p)
    \/ \E p \in Procs, u \in Users, raw \in RawIds : DismissCall(p, u, raw)
    \/ \E p \in Procs : DismissCommit(p)
    \/ \E p \in Procs : DismissReread(p)
    \/ \E p \in Procs : DismissRefresh(p)
    \/ \E p \in Procs : DismissPrune(p)
    \/ \E p \in Procs, u \in Users, raws \in BulkInputs : BulkCall(p, u, raws)
    \/ \E p \in Procs : BulkCommit(p)
    \/ \E p \in Procs : BulkRetry(p)
    \/ \E p \in Procs : BulkPrune(p)
    \/ Tick

SpecApi == Init /\ [][ApiNext]_vars

(***************************************************************************)
(* SpecStream: one viewer, two actors, one caller of the service           *)
(***************************************************************************)
Viewer == "ua"
Actors == {"ub", "uc"}
\* A limit that cuts nothing here (every comment and every like), and one
\* that does.
FullLimit == MaxComments + Cardinality(Actors)
StreamLimits == {1, FullLimit}
\* Calls of the service in one behaviour of SpecStream.
MaxStreamCalls == 2

\* With one caller no INSERT meets a conflict, so the re-read of
\* dismiss_notification_for_user has no behaviour here.
StreamNext ==
    \/ \E a \in Actors : CreateComment(a, 1)
    \/ \E a \in Actors : LikePost(a, 1)
    \/ \E a \in Actors : UnlikePost(a, 1)
    \/ RequestFollow("ub", Viewer)
    \/ WithdrawFollow("ub", Viewer)
    \/ BlockUser(Viewer, "uc")
    \/ \E raw \in StreamRawIds :
          calls < MaxStreamCalls /\ DismissCall("p1", Viewer, raw)
    \/ DismissCommit("p1")
    \/ DismissRefresh("p1")
    \/ DismissPrune("p1")
    \/ \E limit \in StreamLimits :
          calls < MaxStreamCalls /\ StreamCall("p1", Viewer, limit, limit)
    \/ StreamFollow("p1")
    \/ Tick

SpecStream == Init /\ [][StreamNext]_vars

(***************************************************************************)
(* SpecBackfill: comments whose newest ones are already dismissed          *)
(***************************************************************************)
\* Comments on the viewer's post at the start.
MaxBackfill == 4

\* Comment ids are a serial and created_at is the insertion time, so the
\* times do not decrease with the id.
CommentTimes(n) ==
    {t \in [1..n -> 0..MaxTime] : \A i \in 1..n, j \in 1..n :
                                      i < j => t[i] <= t[j]}

\* N comments by the two actors, and a ledger row for each of the K newest.
\* A ledger this long is what a failed best-effort prune leaves behind.
BackfillInit ==
    /\ now = MaxTime
    /\ proc = [p \in Procs |-> Idle]
    /\ likes = {}
    /\ followRequests = {}
    /\ blocks = {}
    /\ calls = 0
    /\ \E n \in 1..MaxBackfill :
          \E k \in 0..(n - 1), t \in CommentTimes(n), d \in 0..MaxTime :
             /\ comments =
                    {[id |-> i, post |-> 1,
                      author |-> IF i % 2 = 1 THEN "ub" ELSE "uc",
                      at |-> t[i]] : i \in 1..n}
             /\ ledger =
                    {[id |-> j, user |-> Viewer,
                      nid |-> build_comment_notification_id(1, n + 1 - j),
                      at |-> IF t[n + 1 - j] > d THEN t[n + 1 - j] ELSE d]
                        : j \in 1..k}
             /\ nextId = k + 1
    /\ ledger0 = ledger
    /\ run = RunIdle

BackfillNext ==
    \/ \E p \in Procs, limit \in StreamLimits :
          StreamCall(p, Viewer, limit, limit)
    \/ \E p \in Procs : StreamFollow(p)

SpecBackfill == BackfillInit /\ [][BackfillNext]_vars

(***************************************************************************)
(* SpecBuilt: the validator on the ids the codec builds                    *)
(***************************************************************************)
BuiltNext ==
    \E p \in Procs, raw \in BuiltIds : ValidateCall(p, raw)

SpecBuilt == Init /\ [][BuiltNext]_vars

(***************************************************************************)
(* SpecCodec: the validator, alone and inside dismiss, on any string       *)
(***************************************************************************)
MaxCodecCalls == 2

CodecNext ==
    \/ /\ calls < MaxCodecCalls
       /\ \E p \in Procs, raw \in CodecInputs : ValidateCall(p, raw)
    \/ /\ calls < MaxCodecCalls
       /\ \E p \in Procs, raw \in CodecInputs : DismissCall(p, "ua", raw)
    \/ \E p \in Procs : DismissCommit(p)
    \/ \E p \in Procs : DismissReread(p)
    \/ \E p \in Procs : DismissRefresh(p)
    \/ \E p \in Procs : DismissPrune(p)

SpecCodec == Init /\ [][CodecNext]_vars

(***************************************************************************)
(* SpecMerge: one stream call over source tables nobody writes             *)
(***************************************************************************)
\* Comments on the viewer's posts at the start.
MaxMergeComments == 2

\* (post, author) of a comment: by an actor on either post of the viewer,
\* or by the viewer on their own post.
MergeCommentPool == {<<1, "ub">>, <<3, "uc">>, <<1, "ua">>}
\* (user, post) of a like on a post of the viewer.
MergeLikePool == {<<"ub", 1>>, <<"uc", 1>>, <<"uc", 3>>}
\* What hides events: nothing, a block in either direction, or a dismissal
\* of ub's like at time 0.
MergeFilters == {"none", "viewer_blocks", "actor_blocks", "dismissed"}

\* The tables as earlier requests left them. With `extras` there are also
\* events the stream of the viewer must not show: a like of the viewer on
\* their own post, and a like and a comment on a post of ub. Follow requests
\* cannot coexist with a block between the two users.
MergeInit ==
    /\ now = MaxTime
    /\ proc = [p \in Procs |-> Idle]
    /\ calls = 0
    /\ nextId = 2
    /\ run = RunIdle
    /\ \E n \in 0..MaxMergeComments, extras \in BOOLEAN,
          filter \in MergeFilters, follows \in BOOLEAN :
          \E who \in [1..n -> MergeCommentPool], t \in CommentTimes(n),
             lt \in [MergeLikePool -> -1..MaxTime] :
             /\ comments =
                    {[id |-> i, post |-> who[i][1], author |-> who[i][2],
                      at |-> t[i]] : i \in 1..n}
                    \cup (IF extras
                          THEN {[id |-> n + 1, post |-> 2, author |-> "uc",
                                 at |-> MaxTime]}
                          ELSE {})
             /\ likes =
                    {[user |-> l[1], post |-> l[2], at |-> lt[l]] :
                        l \in {k \in MergeLikePool : lt[k] >= 0}}
                    \cup (IF extras
                          THEN {[user |-> "ua", post |-> 1, at |-> MaxTime],
                                [user |-> "ub", post |-> 2, at |-> MaxTime]}
                          ELSE {})
             /\ blocks = IF filter = "viewer_blocks" THEN {<<"ua", "uc">>}
                         ELSE IF filter = "actor_blocks"
                              THEN {<<"uc", "ua">>}
                              ELSE {}
             /\ ledger = IF filter = "dismissed"
                         THEN {[id |-> 1, user |-> "ua", nid |-> IdLikeB,
                                at |-> 0]}
                         ELSE {}
             /\ followRequests =
                    IF follows
                    THEN {[requester |-> "ub", target |-> "ua", at |-> 0]}
                         \cup (IF blocks = {}
                               THEN {[requester |-> "uc", target |-> "ua",
                                      at |-> MaxTime]}
                               ELSE {})
                    ELSE {}
    /\ ledger0 = ledger

\* (limit, follow_limit) of the call.
MergeLimits == {<<1, 1>>, <<2, 1>>, <<FullLimit, 2>>}

MergeNext ==
    \/ \E limits \in MergeLimits :
          /\ proc["p1"].pc = "idle"
          /\ StreamCall("p1", Viewer, limits[1], limits[2])
    \/ StreamFollow("p1")

SpecMerge == MergeInit /\ [][MergeNext]_vars

(***************************************************************************)
(* SpecPrune: one prune call on a ledger nobody else writes                *)
(***************************************************************************)
\* Ledger rows of the pruned user at the start.
MaxRows == 4

\* n rows of "ua" with any dismissal times, and possibly a row of "ub".
PruneInit ==
    /\ now = MaxTime
    /\ proc = [p \in Procs |-> Idle]
    /\ comments = {}
    /\ likes = {}
    /\ followRequests = {}
    /\ blocks = {}
    /\ calls = 0
    /\ \E n \in 0..MaxRows :
          \E t \in [1..n -> 0..MaxTime], other \in BOOLEAN :
             /\ ledger =
                    {[id |-> i, user |-> "ua",
                      nid |-> build_comment_notification_id(1, i),
                      at |-> t[i]] : i \in 1..n}
                    \cup (IF other
                          THEN {[id |-> n + 1, user |-> "ub",
                                 nid |-> IdLegacyLike1, at |-> 0]}
                          ELSE {})
             /\ nextId = n + 2
    /\ ledger0 = ledger
    /\ run = RunIdle

PruneNext ==
    \/ \E k \in 0..MaxRows, b \in 1..MaxRows :
          proc["p1"].pc = "idle" /\ PruneCall("p1", "ua", k, b, NoneOpt)
    \/ PruneBatch("p1")

SpecPrune == PruneInit /\ [][PruneNext]_vars

(***************************************************************************)
(* SpecPruneBudget: one prune call with or without a deletion budget       *)
(***************************************************************************)
PruneBudgetChoices == {NoneOpt} \cup {Some(m) : m \in 0..MaxRows}

PruneBudgetNext ==
    \/ \E k \in 0..MaxRows, b \in 1..MaxRows, m \in PruneBudgetChoices :
          proc["p1"].pc = "idle" /\ PruneCall("p1", "ua", k, b, m)
    \/ PruneBatch("p1")

SpecPruneBudget == PruneInit /\ [][PruneBudgetNext]_vars

(***************************************************************************)
(* SpecPruneTwice: the same prune call made twice in a row                 *)
(***************************************************************************)
MaxPruneCalls == 2

\* The ledgers of SpecPrune; the caller's keep limit and batch size are
\* those of the maintenance script's configuration (_prune_user).
PruneTwiceInit ==
    /\ now = MaxTime
    /\ proc = [p \in Procs |-> Idle]
    /\ comments = {}
    /\ likes = {}
    /\ followRequests = {}
    /\ blocks = {}
    /\ calls = 0
    /\ \E n \in 0..MaxRows :
          \E t \in [1..n -> 0..MaxTime] :
             /\ ledger =
                    {[id |-> i, user |-> "ua",
                      nid |-> build_comment_notification_id(1, i),
                      at |-> t[i]] : i \in 1..n}
             /\ nextId = n + 1
    /\ ledger0 = ledger
    /\ \E k \in 0..MaxRows, b \in 1..MaxRows :
          run = [RunIdle EXCEPT !.keep_limit = k, !.prune_batch_size = b]

PruneTwiceNext ==
    \/ /\ calls < MaxPruneCalls
       /\ PruneCall("p1", "ua", run.keep_limit, run.prune_batch_size, NoneOpt)
    \/ PruneBatch("p1")

SpecPruneTwice == PruneTwiceInit /\ [][PruneTwiceNext]_vars

(***************************************************************************)
(* SpecList: listing the dismissed ids of a ledger nobody writes           *)
(***************************************************************************)
ListNext ==
    \/ \E u \in Users, limit \in 0..MaxRows : ListCall("p1", u, limit)
    \/ \E u \in Users, limit \in 0..(MAX_DISMISSED_NOTIFICATIONS + 1) :
          ApiListCall("p1", u, limit)

SpecList == PruneInit /\ [][ListNext]_vars

(***************************************************************************)
(* SpecOnline: one caller after the other, dismiss and bulk dismiss        *)
(***************************************************************************)
\* Ledger rows of "ua" at the start: none, the cap's worth, or one more
\* than the cap keeps.
MaxOnlineRows == 2

OnlineInit ==
    /\ proc = [p \in Procs |-> Idle]
    /\ comments = {}
    /\ likes = {}
    /\ followRequests = {}
    /\ blocks = {}
    /\ calls = 0
    /\ \E n \in 0..MaxOnlineRows, t \in 0..MaxTime :
          /\ now = t
          /\ \E at \in [1..n -> 0..t] :
                ledger = {[id |-> i, user |-> "ua",
                           nid |-> build_comment_notification_id(3, i),
                           at |-> at[i]] : i \in 1..n}
          /\ nextId = n + 1
    /\ ledger0 = ledger
    /\ run = RunIdle

\* With one caller no INSERT meets a conflict: the re-read and the fallback
\* loop have no behaviour here.
OnlineNext ==
    \/ \E u \in Users, raw \in RawIds : DismissCall("p1", u, raw)
    \/ DismissCommit("p1")
    \/ DismissRefresh("p1")
    \/ DismissPrune("p1")
    \/ \E u \in Users, raws \in BulkInputs : BulkCall("p1", u, raws)
    \/ BulkCommit("p1")
    \/ BulkPrune("p1")
    \/ Tick

SpecOnline == OnlineInit /\ [][OnlineNext]_vars

(***************************************************************************)
(* SpecFrame: every operation of the service on one ledger                 *)
(***************************************************************************)
\* One caller writes (dismiss, bulk dismiss, prune) while another reads
\* (stream, list) and a like arrives on the viewer's post.
FrameNext ==
    \/ OnlineNext
    \/ \E k \in PruneKeepLimits, b \in PruneBatchSizes, m \in PruneBudgets :
          PruneCall("p1", "ua", k, b, m)
    \/ PruneBatch("p1")
    \/ \E limit \in StreamLimits : StreamCall("p2", "ua", limit, limit)
    \/ StreamFollow("p2")
    \/ \E limit \in 0..MaxOnlineRows : ListCall("p2", "ua", limit)
    \/ LikePost("ub", 1)

SpecFrame == OnlineInit /\ [][FrameNext]_vars

(***************************************************************************)
(* SpecRun: one run of the maintenance script over three users             *)
(***************************************************************************)
\* Ledger rows of one user at the start of the run.
MaxRunRows == 3

UserIndex(u) == IF u = "ua" THEN 0 ELSE IF u = "ub" THEN 1 ELSE 2

RunInit ==
    /\ now = MaxTime
    /\ proc = [p \in Procs |-> Idle]
    /\ comments = {}
    /\ likes = {}
    /\ followRequests = {}
    /\ blocks = {}
    /\ calls = 0
    /\ \E n \in [RunUsers -> 0..MaxRunRows] :
          ledger =
              UNION {{[id |-> UserIndex(u) * MaxRunRows + i, user |-> u,
                       nid |-> build_comment_notification_id(1, i),
                       at |-> i % (MaxTime + 1)] : i \in 1..n[u]}
                     : u \in RunUsers}
    /\ nextId = 3 * MaxRunRows + 1
    /\ ledger0 = ledger
    /\ run = RunIdle

RunKeepLimits == {1}
RunUserBatchSizes == {1, 2}
RunPruneBatchSizes == {1, 2}
RunMaxUsers == {1, 3}
RunMaxRows == {1, 2, 4}
RunMaxElapsed == {1, MaxElapsed}

RunNext ==
    \/ \E k \in RunKeepLimits, ub \in RunUserBatchSizes,
          pb \in RunPruneBatchSizes, mu \in RunMaxUsers,
          mr \in RunMaxRows, me \in RunMaxElapsed :
          RunStart(k, ub, pb, mu, mr, me)
    \/ RunLoadUsers
    \/ RunForHead
    \/ \E fails \in BOOLEAN : RunPruneBatch(fails)
    \/ RunTick

SpecRun == RunInit /\ [][RunNext]_vars

(***************************************************************************)
(* SpecRunLive: a run of the script while a client keeps dismissing        *)
(***************************************************************************)
\* Ledger rows at the start of the run.
MaxLiveRows == 2

\* Up to MaxLiveRows rows, each of any user.
RunLiveInit ==
    /\ now = MaxTime
    /\ proc = [p \in Procs |-> Idle]
    /\ comments = {}
    /\ likes = {}
    /\ followRequests = {}
    /\ blocks = {}
    /\ calls = 0
    /\ \E n \in 0..MaxLiveRows :
          \E owner \in [1..n -> RunUsers] :
             /\ ledger = {[id |-> i, user |-> owner[i],
                           nid |-> build_comment_notification_id(3, i),
                           at |-> 0] : i \in 1..n}
             /\ nextId = n + 1
    /\ ledger0 = ledger
    /\ run = RunIdle

\* DISMISSED_KEEP_LIMIT may be 0 (_parse_non_negative_int).
RunLiveKeepLimits == {0, MAX_DISMISSED_NOTIFICATIONS}
RunLiveMaxUsers == {3}
RunLiveMaxRows == {1, 4}
\* Calls of the client in one behaviour of SpecRunLive.
MaxLiveCalls == 2
\* What the client dismisses while the script runs.
RunLiveRawIds == {IdLegacyLike1}

RunLiveNext ==
    \/ \E k \in RunLiveKeepLimits, ub \in RunUserBatchSizes,
          mu \in RunLiveMaxUsers, mr \in RunLiveMaxRows :
          RunStart(k, ub, PRUNE_BATCH_SIZE, mu, mr, MaxElapsed)
    \/ RunLoadUsers
    \/ RunForHead
    \/ \E fails \in BOOLEAN : RunPruneBatch(fails)
    \/ RunTick
    \/ /\ calls < MaxLiveCalls
       /\ \E u \in Users, raw \in RunLiveRawIds : DismissCall("p1", u, raw)
    \/ DismissCommit("p1")
    \/ DismissRefresh("p1")
    \/ DismissPrune("p1")

\* The statements of a started run.
RunStep ==
    \/ RunLoadUsers
    \/ RunForHead
    \/ \E fails \in BOOLEAN : RunPruneBatch(fails)

\* asyncio.run(run()) drives the coroutine until it returns or raises: each
\* step of a started run is taken once it is due. Nothing obliges the
\* client to call, or the clock to reach a given second.
SpecRunLive ==
    /\ RunLiveInit
    /\ [][RunLiveNext]_vars
    /\ WF_vars(RunStep)

(***************************************************************************)
(* Claims                                                                  *)
(***************************************************************************)
RowWithId(rid) == \E r \in ledger : r.id = rid

\* C1: a dismiss call that directly follows a successful dismiss of the same
\* id by the same caller, with the row of the first call still in the
\* ledger, succeeds, answers with that same row and dismissedAt without
\* inserting, and the ledger holds exactly one row for (user, id).
C1_DismissTwiceSameRow ==
    \A p \in Procs :
        LET pr == proc[p]
        IN (/\ pr.op = "dismiss"
            /\ pr.pc = "done"
            /\ pr.prev.rid # 0
            /\ RowWithId(pr.prev.rid))
           => /\ pr.res.kind = "ok"
              /\ pr.res.at = pr.prev.at
              /\ pr.res.rid = pr.prev.rid
              /\ pr.res.path = "existing"
              /\ Cardinality(Matching(ledger, pr.user, pr.nid)) = 1

C1_Witness ==
    \E p \in Procs :
        /\ proc[p].op = "dismiss"
        /\ proc[p].pc = "done"
        /\ proc[p].prev.rid # 0
        /\ proc[p].res.kind = "ok"
        /\ proc[p].res.rid = proc[p].prev.rid
        /\ proc[p].res.path = "existing"

\* C2: in every reachable state the ledger holds at most one row per
\* (userId, notificationId) pair.
C2_UniquePerUserAndId ==
    \A r1 \in ledger, r2 \in ledger :
        (r1.user = r2.user /\ r1.nid = r2.nid) => r1 = r2

\* A caller's INSERT met the row another caller had just committed.
C2_Witness ==
    \E p \in Procs :
        /\ proc[p].pc = "reread"
        /\ Cardinality(Matching(ledger, proc[p].user, proc[p].nid)) = 1

\* C3: when two dismiss calls for the same user and id race, both return
\* successfully with the dismissedAt of the one committed row, and exactly
\* one row for the pair exists.
C3_RaceBothSucceed ==
    \A p \in Procs, q \in Procs :
        (/\ p # q
         /\ proc[p].pc = "done"
         /\ proc[p].nid # <<>>
         /\ proc[q].pc \in {"reread", "done"}
         /\ proc[q].user = proc[p].user
         /\ proc[q].nid = proc[p].nid)
        => /\ proc[p].res.kind = "ok"
           /\ Cardinality(Matching(ledger, proc[p].user, proc[p].nid)) = 1
           /\ proc[p].res.rid
                  = (CHOOSE r \in Matching(ledger, proc[p].user, proc[p].nid) :
                         TRUE).id
           /\ proc[q].pc = "done"
                  => /\ proc[q].res.kind = "ok"
                     /\ proc[q].res.at = proc[p].res.at
                     /\ proc[q].res.rid = proc[p].res.rid

C3_Witness ==
    \E p \in Procs, q \in Procs :
        /\ proc[p].pc = "done"
        /\ proc[q].pc = "done"
        /\ proc[p].res.path = "inserted"
        /\ proc[q].res.path = "reread"
        /\ proc[q].user = proc[p].user
        /\ proc[q].nid = proc[p].nid
        /\ proc[q].res.at = proc[p].res.at

\* C4: every ledger row has a notification id that is trimmed, non-empty,
\* at most 191 characters long and accepted by is_supported_notification_id.
C4_OnlyValidIdsPersisted ==
    \A r \in ledger :
        /\ r.nid # <<>>
        /\ Strip(r.nid) = r.nid
        /\ Len(r.nid) <= MAX_NOTIFICATION_ID_LENGTH
        /\ is_supported_notification_id(r.nid) = "true"

ItemIds(items) == {i.id : i \in items}
CommentItemId(c) == build_comment_notification_id(c.post, c.id)
LikeItemId(l) == build_like_notification_id(l.post, UserId(l.user))
FollowItemId(f) == build_follow_notification_id(UserId(f.requester))

\* C5: a comment whose id has a ledger row of the viewer (its dismiss call
\* has committed) is in no result of the stream after any further step:
\* dismiss calls with their post-commit prune, new comments and likes.
C5_DismissedCommentStaysHidden ==
    [][\A c \in comments :
          Matching(ledger, Viewer, CommentItemId(c)) # {}
          => \A limit \in StreamLimits :
                \A o \in NotificationOutcomes(Viewer, limit)' :
                   CommentItemId(c) \notin ItemIds(o)]_vars

\* C6: with N comments on the viewer's post of which exactly the K newest
\* are dismissed (K < N, K also above the keep limit of the ledger), the
\* stream with limit 1 returns exactly the (K+1)-th newest comment.
C6_BackfillPastDismissed ==
    \A p \in Procs :
        (/\ proc[p].op = "stream"
         /\ proc[p].pc \in {"follow", "done"}
         /\ proc[p].limit = 1)
        => \E c \in comments :
              /\ Cardinality({d \in comments :
                                 d.at > c.at \/ (d.at = c.at /\ d.id > c.id)})
                     = Cardinality(ledger)
              /\ ItemIds(proc[p].notifications) = {CommentItemId(c)}

C6_Witness ==
    \E p \in Procs :
        /\ proc[p].op = "stream"
        /\ proc[p].pc = "done"
        /\ proc[p].limit = 1
        /\ Cardinality(ledger) > MAX_DISMISSED_NOTIFICATIONS
        /\ Cardinality(comments) > Cardinality(ledger) + 1
        /\ proc[p].notifications # {}

\* The like is a candidate of the viewer's stream whatever the ledger holds.
LikeCandidate(l) ==
    /\ PostAuthor(l.post) = Viewer
    /\ l.user # Viewer
    /\ NotBlockedEitherDirection(Viewer, l.user)

\* C7: a like on the viewer's post is in no stream result while the ledger
\* holds the row like-P-a with dismissedAt >= the like's event time; once
\* the pair (P, a) has a like event later than that dismissedAt, the like is
\* in every stream result again (for a like that no legacy dismissal and no
\* block hides, and a limit that cuts nothing).
C7_LikeHiddenUntilNewerEvent ==
    \A limit \in StreamLimits :
       \A o \in NotificationOutcomes(Viewer, limit) :
          \A l \in likes :
             LET exact == Matching(ledger, Viewer, LikeItemId(l))
                 legacy ==
                     Matching(ledger, Viewer,
                              legacy_like_notification_id_expression(l.post))
             IN /\ (PostAuthor(l.post) = Viewer
                     /\ \E r \in exact : r.at >= l.at)
                   => LikeItemId(l) \notin ItemIds(o)
                /\ (/\ limit = FullLimit
                    /\ LikeCandidate(l)
                    /\ exact # {}
                    /\ \A r \in exact : l.at > r.at
                    /\ \A r \in legacy : l.at > r.at)
                   => LikeItemId(l) \in ItemIds(o)

\* The stream showed the like of "ub" again after its dismissal.
C7_Witness ==
    /\ proc["p1"].op = "stream"
    /\ proc["p1"].pc = "done"
    /\ IdLikeB \in ItemIds(proc["p1"].notifications)
    /\ \E l \in likes :
          /\ l.user = "ub"
          /\ \E r \in Matching(ledger, Viewer, IdLikeB) : r.at < l.at
    /\ \A o \in NotificationOutcomes(Viewer, FullLimit) : IdLikeB \in ItemIds(o)

\* C8: a legacy row like-P dismissed at T hides every like on P whose event
\* time is <= T, whoever the actor, and no like whose event time is > T; a
\* like is shown iff its event time is strictly later than the dismissedAt
\* of each row, like-P-a or like-P, that the ledger holds for it.
C8_LegacyAndExactTimestamps ==
    \A limit \in StreamLimits :
       \A o \in NotificationOutcomes(Viewer, limit) :
          \A l \in likes :
             LikeCandidate(l) =>
                LET exact == Matching(ledger, Viewer, LikeItemId(l))
                    legacy ==
                        Matching(
                            ledger, Viewer,
                            legacy_like_notification_id_expression(l.post))
                    shown == \A r \in exact \cup legacy : l.at > r.at
                IN /\ (\E r \in legacy : l.at <= r.at)
                      => LikeItemId(l) \notin ItemIds(o)
                   /\ ~shown => LikeItemId(l) \notin ItemIds(o)
                   /\ limit = FullLimit
                      => ((LikeItemId(l) \in ItemIds(o)) <=> shown)

\* One legacy row hides the like of "uc" and not the later like of "ub".
C8_Witness ==
    /\ proc["p1"].op = "stream"
    /\ proc["p1"].pc = "done"
    /\ proc["p1"].limit = FullLimit
    /\ \E r \in Matching(ledger, Viewer, IdLegacyLike1) :
          /\ \E l \in likes : l.user = "uc" /\ l.at <= r.at
          /\ \E l \in likes : l.user = "ub" /\ l.at > r.at
    /\ <<Viewer, "uc">> \notin blocks
    /\ \E l \in likes :
          /\ l.user = "ub"
          /\ LikeItemId(l) \in ItemIds(proc["p1"].notifications)
    /\ \A l \in likes :
          l.user = "uc"
          => /\ LikeItemId(l) \notin ItemIds(proc["p1"].notifications)
             /\ \A o \in NotificationOutcomes(Viewer, FullLimit) :
                   LikeItemId(l) \notin ItemIds(o)

C10_PruneConverges ==
    [][(proc["p1"].pc = "batch" /\ proc'["p1"].pc = "done")
       => LET k == proc["p1"].keep
              before == UserRows(ledger0, "ua")
              n == Cardinality(before)
              left == UserRows(ledger', "ua")
          IN /\ proc'["p1"].res.kind = "count"
             /\ proc'["p1"].res.count = (IF n > k THEN n - k ELSE 0)
             /\ Cardinality(left) = (IF n < k THEN n ELSE k)
             /\ left = {r \in before : RankOf(ledger0, r) < k}
             /\ ledger' \ left = ledger0 \ before]_vars

\* A prune that deleted several rows, kept several, and left the rows of
\* the other user alone.
C10_Witness ==
    /\ proc["p1"].op = "prune"
    /\ proc["p1"].pc = "done"
    /\ proc["p1"].res.count >= 2
    /\ Cardinality(UserRows(ledger, "ua")) >= 2
    /\ Cardinality(UserRows(ledger0, "ua"))
           = proc["p1"].res.count + Cardinality(UserRows(ledger, "ua"))
    /\ \E r \in ledger : r.user = "ub"

\* The rows of "ua" that the prune call of p1 has deleted so far.
PrunedSoFar == UserRows(ledger0, "ua") \ ledger

\* C11: during and after a prune of a user, also one stopped by its
\* budget, every row the prune has deleted is older by (dismissedAt, id)
\* than every row of the user still in the ledger.
C11_PruneDeletesOldestFirst ==
    proc["p1"].op = "prune"
    => \A gone \in PrunedSoFar, kept \in UserRows(ledger, "ua") :
          Newer(kept, gone)

\* C12: a prune with budget m has never deleted more than m rows, its
\* running total is the number of rows it has deleted, and it returns
\* min(max(0, n - k), m), the number of rows it deleted; with m = 0 it
\* returns 0 straight away and deletes nothing.
C12_PruneRespectsBudget ==
    [][LET pr == proc["p1"]
           n == Cardinality(UserRows(ledger0, "ua"))
           excess == IF n > pr.keep THEN n - pr.keep ELSE 0
       IN /\ pr.pc = "batch"
             => /\ pr.total = Cardinality(PrunedSoFar)
                /\ pr.maxDel.some => Cardinality(PrunedSoFar') <= pr.maxDel.v
                /\ proc'["p1"].pc = "done"
                   => /\ proc'["p1"].res.kind = "count"
                      /\ proc'["p1"].res.count = Cardinality(PrunedSoFar')
                      /\ proc'["p1"].res.count
                             = (IF pr.maxDel.some /\ pr.maxDel.v < excess
                                THEN pr.maxDel.v ELSE excess)
          /\ (pr.pc = "idle" /\ proc'["p1"].pc = "done")
             => /\ proc'["p1"].res.kind = "count"
                /\ proc'["p1"].res.count = 0
                /\ ledger' = ledger]_vars

\* A prune that has used up its budget of two rows with more than the
\* keep limit left.
C12_Witness ==
    /\ proc["p1"].pc = "batch"
    /\ proc["p1"].maxDel.some
    /\ proc["p1"].maxDel.v = 2
    /\ proc["p1"].total = 2
    /\ Cardinality(PrunedSoFar) = 2
    /\ Cardinality(UserRows(ledger, "ua")) > proc["p1"].keep

\* C13: a prune that throws for one user does not abort the maintenance
\* run: the run goes on with the next user and ends with a stop reason.
C13_FailureDoesNotAbortRun ==
    run.pc # "crashed"

RowsDeletedByRun == Cardinality(ledger0 \ ledger)

\* C15: in every state of a maintenance run rows_deleted and the rows
\* actually deleted stay within max_rows_per_run and users_scanned within
\* max_users_per_run; a prune is started only below both caps and with the
\* remaining row budget as its max_deleted.
C15_RunStaysWithinCaps ==
    run.pc # "idle"
    => /\ run.rows_deleted <= run.max_rows_per_run
       /\ RowsDeletedByRun <= run.max_rows_per_run
       /\ run.users_scanned <= run.max_users_per_run
       /\ run.pc = "prune"
          => /\ run.remaining_row_budget
                    = run.max_rows_per_run - run.rows_deleted
             /\ run.remaining_row_budget > 0
             /\ run.total_deleted <= run.remaining_row_budget
             /\ RowsDeletedByRun = run.rows_deleted + run.total_deleted
       /\ run.pc \in {"loop", "for", "done"}
          => RowsDeletedByRun = run.rows_deleted

\* A run that a budget smaller than one user's backlog stopped.
C15_Witness ==
    /\ run.pc = "done"
    /\ run.stop_reason = "max_rows"
    /\ run.rows_deleted = run.max_rows_per_run
    /\ run.users_scanned = 2
    /\ \E u \in RunUsers : Cardinality(UserRows(ledger, u)) > run.keep_limit

\* C16: a run that ends has one of the four stop reasons: max_users only
\* with users_scanned at its cap, max_rows only with rows_deleted at its
\* cap, max_elapsed_seconds only with the time cap passed, completed only
\* after the query returned no further user; and after completed (nobody
\* else writing, no prune failed) no user has more than keep_limit rows.
C16_StopReasonMatchesCondition ==
    run.pc = "done"
    => /\ run.stop_reason
              \in {"max_users", "max_rows", "max_elapsed_seconds",
                   "completed"}
       /\ run.stop_reason = "max_users"
          => run.users_scanned >= run.max_users_per_run
       /\ run.stop_reason = "max_rows"
          => run.rows_deleted >= run.max_rows_per_run
       /\ run.stop_reason = "max_elapsed_seconds"
          => run.clock - run.started_at >= run.max_elapsed_seconds
       /\ run.stop_reason = "completed"
          => /\ load_users_exceeding_cap(ledger, run.keep_limit,
                                         run.user_batch_size,
                                         run.after_user_id) = <<>>
             /\ \A u \in RunUsers :
                   Cardinality(UserRows(ledger, u)) <= run.keep_limit

\* A run that pruned two users over two pages and completed.
C16_Witness ==
    /\ run.pc = "done"
    /\ run.stop_reason = "completed"
    /\ run.user_batch_size = 1
    /\ run.users_pruned = 2
    /\ run.rows_deleted = 3

RejectedList(raws) ==
    \/ Len(raws) = 0
    \/ Len(raws) > MAX_BULK_DISMISS_NOTIFICATIONS
    \/ \E i \in 1..Len(raws) :
          \/ Strip(raws[i]) = <<>>
          \/ Len(Strip(raws[i])) > MAX_NOTIFICATION_ID_LENGTH
          \/ is_supported_notification_id(Strip(raws[i])) # "true"

RejectedInputs == {raws \in BulkInputs : RejectedList(raws)}

\* C17: a bulk dismiss of a rejected list raises a validation error in the
\* step that starts it and inserts no row, not even for the valid ids that
\* precede the invalid one.
C17_BulkRejectsWholeList ==
    [][\A p \in Procs :
          (/\ proc'[p] # proc[p]
           /\ proc'[p].op = "bulk"
           /\ proc'[p].raws \in RejectedInputs)
          => /\ proc'[p].pc = "done"
             /\ proc'[p].res.kind = "ValueError"
             /\ ledger' = ledger
      ]_vars

\* The list with a valid id before an invalid one was rejected and the
\* valid id has no row.
C17_Witness ==
    /\ calls = 1
    /\ proc["p1"].op = "bulk"
    /\ proc["p1"].raws = <<IdLegacyLike1, RawUnknown>>
    /\ proc["p1"].res.kind = "ValueError"
    /\ Matching(ledger, proc["p1"].user, IdLegacyLike1) = {}

DistinctTrimmed(raws) == {Strip(raws[i]) : i \in 1..Len(raws)}

\* C18: a bulk dismiss of an accepted list, whatever of its ids repeat, are
\* already dismissed or get inserted by a concurrent call before its commit,
\* returns the number of distinct trimmed ids, and no (user, id) pair ever
\* has more than one row.
C18_BulkIdempotentUnderRaces ==
    /\ \A p \in Procs :
          (/\ proc[p].op = "bulk"
           /\ proc[p].pc = "done"
           /\ proc[p].raws \notin RejectedInputs)
          => /\ proc[p].res.kind = "count"
             /\ proc[p].res.count = Cardinality(DistinctTrimmed(proc[p].raws))
    /\ \A r1 \in ledger, r2 \in ledger :
          (r1.user = r2.user /\ r1.nid = r2.nid) => r1 = r2

ListedRow(p, i) ==
    CHOOSE r \in UserRows(ledger, proc[p].user) : r.nid = proc[p].listed[i]

ListIsNewestFirst(p) ==
    LET S == UserRows(ledger, proc[p].user)
        n == Len(proc[p].listed)
    IN /\ n = IF proc[p].limit < Cardinality(S)
              THEN proc[p].limit ELSE Cardinality(S)
       /\ \A i \in 1..n : proc[p].listed[i] \in {r.nid : r \in S}
       /\ \A i \in 1..n, j \in 1..n :
             i < j => Newer(ListedRow(p, i), ListedRow(p, j))
       /\ \A r \in S :
             r.nid \notin SeqRange(proc[p].listed)
             => \A i \in 1..n : Newer(ListedRow(p, i), r)

\* C20: a listing of the dismissed ids of u returns ids of u's own rows
\* only, newest first by (dismissed_at desc, id desc), rows of equal time by
\* descending id, and min(limit, number of rows of u) of them: the newest.
C20_ListNewestFirst ==
    \A p \in Procs :
        (proc[p].pc = "done" /\ proc[p].res.kind = "ids")
        => ListIsNewestFirst(p)

\* C19: a step of a dismiss, bulk dismiss or prune call made for user A
\* leaves the ledger rows of every other user B as they were, and with them
\* the listing of B's dismissed ids.
C19_UserIsolation ==
    [][\A p \in Procs :
          proc'[p] # proc[p]
          => \A B \in Users \ {proc'[p].user} :
                /\ UserRows(ledger', B) = UserRows(ledger, B)
                /\ list_dismissed_notification_ids(ledger', B, MaxId)
                       = list_dismissed_notification_ids(ledger, B, MaxId)
      ]_vars

\* A prune for ua deleted a row of ua while ub has a row.
C19_Witness ==
    /\ proc["p1"].op = "prune"
    /\ proc["p1"].user = "ua"
    /\ proc["p1"].pc = "done"
    /\ proc["p1"].res.count >= 1
    /\ UserRows(ledger, "ub") # {}

\* The items of every comment and like event on u's posts that is by
\* somebody else, not blocked in either direction and not dismissed.
VisibleEventItems(u) ==
    {NotificationStreamItem(CommentEventRow(c)) :
        c \in {d \in comments :
                  /\ PostAuthor(d.post) = u
                  /\ d.author # u
                  /\ NotBlockedEitherDirection(u, d.author)
                  /\ Matching(ledger, u, CommentItemId(d)) = {}}}
    \cup {NotificationStreamItem(LikeEventRow(l)) :
             l \in {k \in likes : LikeRowVisible(u, k)}}

HasResponsePart(p) ==
    /\ proc[p].op = "stream"
    /\ proc[p].pc \in {"follow", "done"}
    /\ proc[p].failed = "none"

\* C21: the notifications of a stream call are sorted by occurred_at,
\* newest first, and are the newest `limit` of all visible comment and like
\* events: as many as the limit allows, and no visible event left out is
\* strictly newer than one included.
C21_StreamIsNewestPrefix ==
    \A p \in Procs :
        HasResponsePart(p)
        => LET list == proc[p].notificationList
               n == Len(list)
               visible == VisibleEventItems(proc[p].user)
           IN /\ \A i \in 1..n, j \in 1..n :
                    i < j => list[i].at >= list[j].at
              /\ SeqRange(list) \subseteq visible
              /\ Cardinality(SeqRange(list)) = n
              /\ n = IF proc[p].limit < Cardinality(visible)
                     THEN proc[p].limit ELSE Cardinality(visible)
              /\ \A x \in SeqRange(list), y \in visible \ SeqRange(list) :
                    y.at <= x.at

\* Two visible comments and two visible likes, limit 2: each source was cut
\* to two rows and the merge kept the newer comment and the newer like.
C21_Witness ==
    /\ proc["p1"].pc = "done"
    /\ proc["p1"].failed = "none"
    /\ proc["p1"].limit = 2
    /\ Len(proc["p1"].notificationList) = 2
    /\ {proc["p1"].notificationList[i].kind : i \in 1..2} = {"comment", "like"}
    /\ \E T \in SUBSET (VisibleEventItems("ua")
                            \ SeqRange(proc["p1"].notificationList)) :
          /\ Cardinality(T) = 2
          /\ {x.kind : x \in T} = {"comment", "like"}
          /\ \A x \in T : x.at < proc["p1"].notificationList[2].at

\* C22: for a fixed content of the tables a stream call is deterministic:
\* on one database (one NULL ordering) the list a call returned is the only
\* list the call can return, also when events share their time and the
\* limit cuts between them.
C22_StreamIsDeterministic ==
    \A p \in Procs :
        HasResponsePart(p)
        => \E nullsFirst \in BOOLEAN :
              NotificationListsFor(proc[p].user, proc[p].limit, nullsFirst)
                  = {proc[p].notificationList}

\* C23: a stream call sends a constant number of statements, at most two:
\* one when the comment/like query has run, two when the call has answered,
\* whatever the number of dismissal rows of the user and however many of
\* the newest events are dismissed.
C23_StreamQueryCountIsConstant ==
    \A p \in Procs :
        proc[p].op = "stream"
        => /\ proc[p].queries <= 2
           /\ proc[p].pc = "follow" => proc[p].queries = 1
           /\ (proc[p].pc = "done" /\ proc[p].failed = "none")
              => proc[p].queries = 2

\* A call answered with two statements although the three newest of four
\* comments are dismissed.
C23_Witness ==
    /\ proc["p1"].op = "stream"
    /\ proc["p1"].pc = "done"
    /\ proc["p1"].failed = "none"
    /\ proc["p1"].queries = 2
    /\ Cardinality(comments) = 4
    /\ Cardinality(UserRows(ledger, Viewer)) = 3
    /\ proc["p1"].limit = 1
    /\ Cardinality(proc["p1"].notifications) = 1

NoBlockBetween(u, actor) ==
    <<u, actor>> \notin blocks /\ <<actor, u>> \notin blocks

\* C24: every comment or like notification of a stream call for u is an
\* event on a post of u by somebody else, and neither its actor nor the
\* requester of any follow-request item blocks u or is blocked by u when
\* the query runs.
C24_StreamActorsNotBlocked ==
    \A p \in Procs :
        HasResponsePart(p)
        => LET u == proc[p].user
           IN /\ \A item \in proc[p].notifications :
                    \/ \E c \in comments :
                          /\ item.kind = "comment"
                          /\ CommentItemId(c) = item.id
                          /\ PostAuthor(c.post) = u
                          /\ c.author # u
                          /\ NoBlockBetween(u, c.author)
                    \/ \E l \in likes :
                          /\ item.kind = "like"
                          /\ LikeItemId(l) = item.id
                          /\ PostAuthor(l.post) = u
                          /\ l.user # u
                          /\ NoBlockBetween(u, l.user)
              /\ \A item \in proc[p].follows :
                    \E f \in followRequests :
                       /\ FollowItemId(f) = item.id
                       /\ f.target = u
                       /\ NoBlockBetween(u, f.requester)

\* The viewer blocks uc, who commented and liked; the viewer liked their own
\* post and there are events on a post of ub; the answer shows ub only.
C24_Witness ==
    /\ proc["p1"].pc = "done"
    /\ proc["p1"].failed = "none"
    /\ proc["p1"].limit = FullLimit
    /\ blocks = {<<"ua", "uc">>}
    /\ \E c \in comments : c.author = "uc" /\ c.post = 3
    /\ \E l \in likes : l.user = "uc" /\ l.post = 1
    /\ \E l \in likes : l.user = "ua" /\ l.post = 1
    /\ \E c \in comments : c.post = 2
    /\ Cardinality(proc["p1"].notifications) = 2
    /\ Cardinality(proc["p1"].follows) = 1

\* C25: every answer of a stream call has at most `limit` notifications,
\* at most `follow_limit` follow requests, and a total_count equal to the
\* number of notifications plus the number of follow requests.
C25_StreamRespectsLimits ==
    \A p \in Procs :
        (proc[p].op = "stream" /\ proc[p].pc = "done"
         /\ proc[p].res.kind = "count")
        => /\ Len(proc[p].notificationList) <= proc[p].limit
           /\ Cardinality(proc[p].follows) <= proc[p].followLimit
           /\ proc[p].res.count
                  = Len(proc[p].notificationList)
                        + Cardinality(proc[p].follows)

\* Both limits cut: more visible events than the limit of 2, two follow
\* requests with a follow limit of 1.
C25_Witness ==
    /\ proc["p1"].op = "stream"
    /\ proc["p1"].pc = "done"
    /\ proc["p1"].limit = 2
    /\ proc["p1"].followLimit = 1
    /\ Cardinality(VisibleEventItems("ua")) > 2
    /\ Cardinality(followRequests) = 2
    /\ Len(proc["p1"].notificationList) = 2
    /\ Cardinality(proc["p1"].follows) = 1
    /\ proc["p1"].res.count = 3

\* C26: when the comment/like query or the follow-request query of a stream
\* call fails, the call ends with the error and holds no notifications and
\* no follow requests; the failed statement is not sent again and, after a
\* failed comment/like query, the follow-request query is not sent at all.
C26_StreamFailsAsAWhole ==
    \A p \in Procs :
        proc[p].op = "stream"
        => /\ proc[p].failed # "none"
              => /\ proc[p].pc = "done"
                 /\ proc[p].res.kind = "DBAPIError"
                 /\ proc[p].notifications = {}
                 /\ proc[p].notificationList = <<>>
                 /\ proc[p].follows = {}
           /\ proc[p].failed = "events" => proc[p].queries = 1
           /\ proc[p].failed = "follows" => proc[p].queries = 2
           /\ proc[p].res.kind = "count"
              => proc[p].failed = "none" /\ proc[p].queries = 2

\* The follow-request query failed after a comment/like query that had
\* events to show: the call ended with the error.
C26_Witness ==
    /\ proc["p1"].op = "stream"
    /\ proc["p1"].pc = "done"
    /\ proc["p1"].failed = "follows"
    /\ proc["p1"].res.kind = "DBAPIError"
    /\ Cardinality(VisibleEventItems("ua")) >= 2
    /\ followRequests # {}

\* C27: every id the codec builds from positive integers and canonical
\* UUID strings (comment, like, follow, and the legacy like shape) is
\* accepted by is_supported_notification_id.
C27_BuiltIdsAreSupported ==
    \A p \in Procs :
        (proc[p].op = "validate" /\ proc[p].nid \in BuiltIds)
        => proc[p].res.kind = "true"

\* The validator has answered for a like id with a two-digit post id and a
\* UUID with letters, and for a two-digit comment id.
C27_Witness ==
    /\ proc["p1"].op = "validate"
    /\ proc["p1"].nid = build_like_notification_id(MaxCodecInt, UuidLetters)
    /\ proc["p1"].res.kind = "true"
    /\ proc["p2"].op = "validate"
    /\ proc["p2"].nid = build_comment_notification_id(10, MaxCodecInt)
    /\ proc["p2"].res.kind = "true"

\* The four shapes of an id, read off the text: decimal digits that are not
\* all zero, and a UUID as 8-4-4-4-12 lower-case hexadecimal digits.
IsPositiveDecimal(t) ==
    /\ t # <<>>
    /\ \A i \in 1..Len(t) : t[i] \in DigitSet
    /\ \E i \in 1..Len(t) : t[i] # "0"

IsCanonicalUuidText(t) ==
    /\ Len(t) = 36
    /\ \A i \in 1..36 : IF i \in {9, 14, 19, 24} THEN t[i] = "-"
                        ELSE t[i] \in LowerHexSet

IsPairText(t, IsSecond(_)) ==
    \E k \in 1..Len(t) :
        /\ t[k] = "-"
        /\ IsPositiveDecimal(SubSeq(t, 1, k - 1))
        /\ IsSecond(SubSeq(t, k + 1, Len(t)))

WellFormedId(s) ==
    \/ /\ StartsWith(s, CommentPrefix)
       /\ IsPairText(RemovePrefix(s, CommentPrefix), IsPositiveDecimal)
    \/ /\ StartsWith(s, FollowPrefix)
       /\ IsCanonicalUuidText(RemovePrefix(s, FollowPrefix))
    \/ /\ StartsWith(s, LikePrefix)
       /\ \/ IsPositiveDecimal(RemovePrefix(s, LikePrefix))
          \/ IsPairText(RemovePrefix(s, LikePrefix), IsCanonicalUuidText)

\* C28: is_supported_notification_id returns true exactly for
\* comment-<p>-<c>, follow-<uuid>, like-<p> and like-<p>-<uuid> with p, c
\* positive integers and a canonical UUID, and returns false, never an
\* exception, for every other string; dismiss rejects exactly the ids the
\* validator rejects.
C28_ValidatorIsExact ==
    [][\A p \in Procs :
          /\ (proc'[p].op = "validate" /\ proc'[p] # proc[p])
             => proc'[p].res.kind =
                    IF WellFormedId(proc'[p].nid) THEN "true" ELSE "false"
          /\ \A raw \in CodecInputs :
                DismissCall(p, "ua", raw)
                => ((proc'[p].res.kind = "ValueError")
                    <=> ~WellFormedId(raw))]_vars

\* C29: a uniqueness conflict hit by dismiss is never surfaced to the
\* caller: under any interleaving with other dismiss, bulk and prune calls,
\* a prune that removes the winning row before the re-read included, the
\* re-read ends the call with a {notification_id, dismissed_at} result and
\* not with an error.
C29_ConflictIsNeverSurfaced ==
    [][\A p \in Procs :
          (proc[p].pc = "reread" /\ proc'[p] # proc[p])
          => /\ proc'[p].res.kind # "IntegrityError"
             /\ ~proc[p].bulk
                => /\ proc'[p].res.kind = "ok"
                   /\ proc'[p].res.nid = proc[p].nid]_vars

\* The keep limit of the prune a caller is running: its argument for
\* prune_dismissed_notifications_for_user, the cap for a post-commit prune.
KeepLimitOf(p) ==
    IF proc[p].op = "prune" THEN proc[p].keep ELSE MAX_DISMISSED_NOTIFICATIONS

\* C30: under any interleaving of concurrent prunes (maintenance prunes and
\* post-dismiss prunes) and dismiss calls, a step that deletes rows is a
\* prune step of one caller, deletes only rows of its user that are not
\* among that user's keep_limit most recent rows at that moment, and leaves
\* the user with at least min(keep_limit, rows present) rows.
C30_PruneKeepsNewestRows ==
    [][(ledger' # ledger /\ ledger' \subseteq ledger)
       => \E p \in Procs :
             /\ proc'[p] # proc[p]
             /\ proc[p].pc \in {"batch", "prune", "bulk_prune"}
             /\ \A r \in ledger \ ledger' :
                   /\ r.user = proc[p].user
                   /\ RankOf(ledger, r) >= KeepLimitOf(p)
             /\ LET before == Cardinality(UserRows(ledger, proc[p].user))
                    after == Cardinality(UserRows(ledger', proc[p].user))
                IN after >= IF KeepLimitOf(p) < before
                            THEN KeepLimitOf(p) ELSE before]_vars

\* A maintenance prune with the cap as keep limit has deleted a row and is
\* still in its loop while another caller's dismiss of the same user has
\* committed its row and is about to run its post-commit prune; the user is
\* left with exactly the cap.
C30_Witness ==
    /\ proc["p1"].op = "prune" /\ proc["p1"].pc = "batch"
    /\ proc["p1"].keep = MAX_DISMISSED_NOTIFICATIONS
    /\ proc["p1"].total >= 1
    /\ proc["p2"].op = "dismiss" /\ proc["p2"].pc = "prune"
    /\ proc["p2"].user = proc["p1"].user
    /\ Cardinality(UserRows(ledger, proc["p1"].user))
          = MAX_DISMISSED_NOTIFICATIONS

\* The time a dismiss call started at: the current time for a call that is
\* about to be made, the start of its transaction for one under way.
CallStart(p) == IF proc[p].pc \in {"idle", "done"} THEN now ELSE proc[p].txAt

\* The like or follow request behind the id x was shown to the viewer when
\* the call of p started: it is a candidate of the stream, it is not later
\* than the start of the call, and no row other than the one the call
\* inserted hides it.
ShownAtCall(p, x) ==
    \/ \E l \in likes :
          /\ LikeItemId(l) = x
          /\ LikeCandidate(l)
          /\ l.at <= CallStart(p)
          /\ \A r \in (Matching(ledger, Viewer, x)
                       \cup Matching(ledger, Viewer,
                                     legacy_like_notification_id_expression(
                                         l.post))) \ {proc[p].row} :
                r.at < l.at
    \/ \E f \in followRequests :
          /\ FollowItemId(f) = x
          /\ f.target = Viewer
          /\ NotBlockedEitherDirection(Viewer, f.requester)
          /\ f.at <= CallStart(p)
          /\ \A r \in Matching(ledger, Viewer, x) \ {proc[p].row} :
                r.at < f.at

\* The step in which a dismiss call of p returns x successfully.
DismissReturns(p, x) ==
    /\ proc'[p].op = "dismiss"
    /\ proc'[p].pc = "done"
    /\ proc'[p].res.kind = "ok"
    /\ proc'[p].res.nid = x
    /\ calls' = calls + 1 \/ proc[p].pc \notin {"idle", "done"}

\* C31: when a like or follow notification x is shown by the stream and
\* dismiss(u, x) then returns successfully with no newer event for x in
\* between, no result of the next stream call contains x; also for an x
\* that was dismissed earlier and shown again because of a newer event.
C31_DismissHidesShownItem ==
    [][\A x \in {IdLikeB, IdFollowB} :
          (DismissReturns("p1", x) /\ ShownAtCall("p1", x))
          => \A limit \in StreamLimits :
                /\ \A o \in NotificationOutcomes(Viewer, limit)' :
                      x \notin ItemIds(o)
                /\ \A o \in FollowOutcomes(Viewer, limit)' :
                      x \notin ItemIds(o)]_vars

\* C32: when a bulk dismiss returns successfully every distinct id of its
\* list has a ledger row of the user, the ids dismissed before the call
\* included: the call's own post-commit prune removes no row whose id is in
\* the list. Stated for calls that insert no more rows than the cap keeps,
\* as MAX_BULK_DISMISS_NOTIFICATIONS is below MAX_DISMISSED_NOTIFICATIONS
\* in the program.
C32_BulkPruneSparesListedIds ==
    [][\A p \in Procs :
          (/\ proc[p].pc = "bulk_prune"
           /\ proc'[p].pc = "done"
           /\ proc'[p].res.kind = "count"
           /\ Len(proc[p].missing) <= MAX_DISMISSED_NOTIFICATIONS)
          => \A i \in 1..Len(proc[p].ids) :
                Matching(ledger, proc[p].user, proc[p].ids[i]) # {}
                => Matching(ledger', proc[p].user, proc[p].ids[i]) # {}]_vars

\* The rows of the caller's user that were there before the call under way
\* inserted its own.
RowsBeforeCall(p) ==
    {r \in UserRows(ledger, proc[p].user) :
        r # proc[p].row /\ r.nid \notin SeqRange(proc[p].missing)}

\* C33: when the user has at most MAX_DISMISSED_NOTIFICATIONS rows before a
\* dismiss or bulk dismiss call and the post-commit prune does not fail,
\* the user has at most that many rows when the call returns; a call that
\* runs no prune inserts nothing. Hence the row count stays within the cap
\* between calls.
C33_OnlinePathKeepsCap ==
    [][\A u \in Users :
          LET before == Cardinality(UserRows(ledger, u))
              after == Cardinality(UserRows(ledger', u))
          IN /\ (/\ proc["p1"].pc \in {"prune", "bulk_prune"}
                 /\ proc["p1"].user = u
                 /\ proc'["p1"].pc = "done"
                 /\ proc'["p1"].log # "warning"
                 /\ Cardinality(RowsBeforeCall("p1"))
                        <= MAX_DISMISSED_NOTIFICATIONS)
                => after <= MAX_DISMISSED_NOTIFICATIONS
             /\ (proc["p1"].pc \in {"idle", "done"}
                 /\ proc'["p1"].pc = "done")
                => after = before]_vars

\* A bulk call on a user at the cap has inserted two rows and returned
\* after its prune brought the user back to the cap.
C33_Witness ==
    /\ proc["p1"].op = "bulk"
    /\ proc["p1"].pc = "done"
    /\ proc["p1"].log = "info"
    /\ Len(proc["p1"].ids) = MAX_BULK_DISMISS_NOTIFICATIONS
    /\ Cardinality(UserRows(ledger0, proc["p1"].user))
          = MAX_DISMISSED_NOTIFICATIONS
    /\ nextId = MAX_DISMISSED_NOTIFICATIONS + MAX_BULK_DISMISS_NOTIFICATIONS + 1
    /\ Cardinality(UserRows(ledger, proc["p1"].user))
          = MAX_DISMISSED_NOTIFICATIONS

\* C34: a ledger row's user, notification id and dismissal time never
\* change while the row exists; rows are created only by the insert of a
\* dismiss or bulk dismiss and removed only by a prune, and only when the
\* user has more than the keep limit of that prune; the stream, the list, a
\* rejected dismiss and a dismiss of an already-dismissed id leave the
\* ledger unchanged.
C34_LedgerFrame ==
    [][/\ \A r \in ledger, q \in ledger' : r.id = q.id => r = q
       /\ ledger' \ ledger # {}
          => \E p \in Procs :
                /\ proc[p].pc \in {"insert", "bulk_insert"}
                /\ proc'[p] # proc[p]
                /\ \A r \in ledger' \ ledger :
                      /\ r.user = proc[p].user
                      /\ r.nid \in {proc[p].nid} \cup SeqRange(proc[p].missing)
       /\ ledger \ ledger' # {}
          => \E p \in Procs :
                /\ proc[p].pc \in {"batch", "prune", "bulk_prune"}
                /\ proc'[p] # proc[p]
                /\ Cardinality(UserRows(ledger, proc[p].user)) > KeepLimitOf(p)
                /\ \A r \in ledger \ ledger' : r.user = proc[p].user
       /\ \A p \in Procs :
             (/\ proc'[p] # proc[p]
              /\ \/ proc'[p].op \in {"stream", "list"}
                 \/ /\ proc'[p].op = "dismiss"
                    /\ proc[p].pc \in {"idle", "done"})
             => ledger' = ledger]_vars

\* One caller holds the answer of a dismiss of an already-dismissed id, read
\* from the row the ledger still holds, and the other caller the stream
\* with the like in it.
C34_Witness ==
    /\ proc["p1"].op = "dismiss"
    /\ proc["p1"].pc = "done"
    /\ proc["p1"].res.path = "existing"
    /\ \E r \in Matching(ledger, proc["p1"].user, proc["p1"].nid) :
          r.id = proc["p1"].res.rid /\ r.at = proc["p1"].res.at
    /\ proc["p2"].op = "stream"
    /\ proc["p2"].pc = "done"
    /\ proc["p2"].notifications # {}

\* C35: prune is idempotent: after a prune call has run to completion, an
\* immediate second call with the same user, keep limit and batch size
\* returns 0 and leaves the ledger unchanged; and a prune on a user with at
\* most keep_limit rows deletes nothing and commits nothing.
C35_PruneIsIdempotent ==
    [][/\ (calls = MaxPruneCalls /\ proc["p1"].op = "prune")
          => /\ ledger' = ledger
             /\ proc'["p1"].pc = "done"
                => /\ proc'["p1"].res.kind = "count"
                   /\ proc'["p1"].res.count = 0
                   /\ proc'["p1"].commits = 0
       /\ (/\ proc["p1"].pc = "batch"
           /\ proc["p1"].total = 0
           /\ Cardinality(UserRows(ledger, proc["p1"].user))
                 <= proc["p1"].keep)
          => /\ ledger' = ledger
             /\ proc'["p1"].pc = "done"
             /\ proc'["p1"].res.count = 0
             /\ proc'["p1"].commits = 0]_vars

\* The second call has returned 0 on the ledger the first call cut down to
\* its keep limit in more than one batch.
C35_Witness ==
    /\ calls = MaxPruneCalls
    /\ proc["p1"].op = "prune"
    /\ proc["p1"].pc = "done"
    /\ proc["p1"].res.count = 0
    /\ run.keep_limit > 0
    /\ Cardinality(UserRows(ledger, "ua")) = run.keep_limit
    /\ Cardinality(UserRows(ledger0, "ua"))
          > run.keep_limit + run.prune_batch_size

\* C36: when a dismiss call returns {x, t} and no other operation runs
\* concurrently for the user, the ledger holds a row (u, x) dismissed at t:
\* the row just inserted ranks newest by (dismissed_at, id) and the call's
\* own post-commit prune does not remove it.
C36_ReturnedRowIsInLedger ==
    (proc["p1"].op = "dismiss" /\ proc["p1"].pc = "done"
        /\ proc["p1"].res.kind = "ok")
    => /\ proc["p1"].res.nid = proc["p1"].nid
       /\ \E r \in Matching(ledger, proc["p1"].user, proc["p1"].res.nid) :
             /\ r.at = proc["p1"].res.at
             /\ proc["p1"].res.path = "inserted" => RankOf(ledger, r) = 0

\* A dismiss on a user at the cap, with a row dismissed at the same time,
\* has inserted its row and its prune has deleted the older row.
C36_Witness ==
    /\ proc["p1"].op = "dismiss"
    /\ proc["p1"].pc = "done"
    /\ proc["p1"].res.path = "inserted"
    /\ proc["p1"].log = "info"
    /\ proc["p1"].user = "ua"
    /\ \E r0 \in UserRows(ledger0, "ua") :
          r0.at = proc["p1"].res.at /\ r0 \notin ledger
    /\ \E r \in Matching(ledger, "ua", proc["p1"].nid) :
          r.at = proc["p1"].res.at


RunEnded == run.pc \in {"done", "crashed"}

\* The users handled so far are in strictly increasing order of user id.
HandledAscending ==
    \A i \in DOMAIN run.handled, j \in DOMAIN run.handled :
        i < j => UserIdLess[run.handled[i], run.handled[j]]

\* The page being worked on is in strictly increasing order of user id and
\* starts after the last user id of the page before it.
PageAfterCursor ==
    run.pc \in {"for", "prune"} =>
        /\ \A i \in DOMAIN run.user_batch, j \in DOMAIN run.user_batch :
              i < j => UserIdLess[run.user_batch[i][1],
                                  run.user_batch[j][1]]
        /\ run.after_user_id # "" =>
              \A i \in DOMAIN run.user_batch :
                 UserIdLess[run.after_user_id, run.user_batch[i][1]]

\* The cursor moves only to the last user id of the page just finished.
CursorMoves ==
    run'.after_user_id # run.after_user_id =>
        /\ run.user_batch # <<>>
        /\ run'.after_user_id = run.user_batch[Len(run.user_batch)][1]
        /\ run.handled # <<>>
        /\ run'.after_user_id = run.handled[Len(run.handled)]

\* The loop ends when a page comes back empty or a stop condition holds
\* (or the DELETE of a prune raises, which ends the script).
EndsForAReason ==
    (run.pc = "loop" /\ run'.pc = "done") =>
        \/ /\ run'.stop_reason = "completed"
           /\ load_users_exceeding_cap(ledger, run.keep_limit,
                                        run.user_batch_size,
                                        run.after_user_id) = <<>>
        \/ /\ run'.stop_reason = "max_users"
           /\ run.users_scanned >= run.max_users_per_run
        \/ /\ run'.stop_reason = "max_rows"
           /\ run.rows_deleted >= run.max_rows_per_run
        \/ /\ run'.stop_reason = "max_elapsed_seconds"
           /\ run.clock - run.started_at >= run.max_elapsed_seconds

\* C37: a started maintenance run terminates, also while a client keeps
\* dismissing; the users it handles are in strictly increasing user-id
\* order, so none is pruned twice; every page is ascending and starts after
\* the last user id of the page before it; and the loop leaves `while True`
\* only on an empty page or a stop condition.
C37_RunTerminatesEachUserOnce ==
    /\ [](HandledAscending /\ PageAfterCursor)
    /\ [][CursorMoves /\ EndsForAReason]_vars
    /\ (run.pc # "idle") ~> RunEnded

\* A run that worked through two pages while the client dismissed for the
\* user of the first page after that user was pruned, and then completed.
C37_Witness ==
    /\ run.pc = "done"
    /\ run.stop_reason = "completed"
    /\ run.user_batch_size = 1
    /\ Len(run.handled) >= 2
    /\ UserRows(ledger, run.handled[1]) # {}
    /\ Cardinality(UserRows(ledger, run.handled[1])) > run.keep_limit


====
